---- MODULE Spec2Model ----
(***************************************************************************)
(* Model of the milaidy self-update subsystem:                             *)
(*   src/src/services/update-checker.ts  (resolveChannel, shouldSkipCheck, *)
(*   fetchDistTags, checkForUpdate, fetchAllChannelVersions)               *)
(*   src/src/services/self-updater.ts    (detectInstallMethod,             *)
(*   buildUpdateCommand, runCommand, readPostUpdateVersion, performUpdate) *)
(* Strings the code inspects character by character (the environment       *)
(* override, version strings) are sequences of one-character strings.      *)
(* A JavaScript  T | null | undefined  is the empty set (absent) or a      *)
(* singleton {v}.  Times are milliseconds since the epoch, as Date.now().  *)
(***************************************************************************)
EXTENDS Integers, Sequences, FiniteSets, TLC

VARIABLES
    now,        \* wall clock, ms (Date.now())
    env,        \* process.env.MILAIDY_UPDATE_CHANNEL: [set, val]
    disk,       \* the persisted configuration file
    pc,         \* position of the running checkForUpdate invocation
    force,      \* options?.force of the running invocation
    config,     \* const config = loadMilaidyConfig()   (the invocation's snapshot)
    channel,    \* const channel = resolveChannel(updateConfig)
    timer,      \* the cancellation timer of fetchDistTags
    request,    \* the pending registry request
    callAt,     \* Date.now() when the invocation evaluated the cache gate
    fetches,    \* registry requests issued by the running invocation
    fetched,    \* what fetchDistTags returned, {} before it returned
    saves,      \* arguments of the saveMilaidyConfig calls of the invocation
    result,     \* the UpdateCheckResult returned, {} before the return
    resolved,   \* the value returned by a direct resolveChannel call, {} before
    whichOut,   \* what `which milaidy` prints, {} when the command fails
    realOut,    \* what fs.realpathSync returns, {} when it throws
    manifest,   \* ../../package.json as readFileSync and JSON.parse find it
    detected,   \* the value returned by detectInstallMethod, {} before
    versionOut, \* what `milaidy --version` prints, {} when the command fails
    upc,        \* position of the running performUpdate invocation
    currentVersion, \* performUpdate's first argument
    updChannel, \* performUpdate's second argument
    method,     \* const method = detectInstallMethod()
    cmdInfo,    \* const cmdInfo = buildUpdateCommand(method, channel)
    spawns,     \* child processes spawned by the invocation
    child,      \* the child process: none, running, failed (to start), closed
    childError, \* the message of the child's error event, {} without one
    childExit,  \* the code of the child's close event, {} before it
    dataEvents, \* data events of the child's stderr pipe so far
    stderr,     \* let stderr = ""  of runCommand
    resolveCalls, \* calls of the promise's resolve function
    settled,    \* the value runCommand's promise resolved with, {} before
    rereads,    \* readPostUpdateVersion calls of the invocation
    updateResult, \* the UpdateResult returned, {} before the return
    apc,        \* position of the running fetchAllChannelVersions invocation
    versions,   \* what fetchAllChannelVersions returned, {} before the return
    cmpA,       \* first argument of a direct compareSemver call
    cmpB,       \* second argument of the call
    cmpDone,    \* the call has returned
    cmpAB,      \* compareSemver(cmpA, cmpB)
    cmpBA,      \* compareSemver(cmpB, cmpA)
    prevIssue,  \* history: the registry request before the last one, {} if none
    lastIssue,  \* history: the last registry request issued: when, and
                \* whether its answer was saved
    lastOk,     \* history: the dist-tags of the last check that found a
                \* version, {} if none
    lastSaved,  \* history: when the last save that went through was made,
                \* and with which version, {} if none
    prevReturn, \* history: how the invocation before this one ended, {} if none
    parked,     \* the locals of the checkForUpdate invocation that is not running
    who,        \* which of the two invocations is running: 1 or 2
    finished,   \* history: the saves that went through, in order: by which
                \* invocation, when, and with which version
    lastSave    \* history: the persisted config just before and just after
                \* the last save that went through, {} if none

\* The variables of update-checker.ts
checkVars == <<now, env, disk, pc, force, config, channel, timer, request,
               callAt, fetches, fetched, saves, result, resolved>>
\* The variables of detectInstallMethod
detectVars == <<whichOut, realOut, manifest, detected>>

\* The variables of performUpdate
updateVars == <<versionOut, upc, currentVersion, updChannel, method, cmdInfo,
                spawns, child, childError, childExit, dataEvents, stderr,
                resolveCalls, settled, rereads, updateResult>>

\* The variables of fetchAllChannelVersions, besides those of fetchDistTags
allVars == <<apc, versions>>

\* The variables of a direct compareSemver call
cmpVars == <<cmpA, cmpB, cmpDone, cmpAB, cmpBA>>

\* The history of the registry requests of checkForUpdate
issueVars == <<prevIssue, lastIssue>>

\* The history of the results of checkForUpdate
histVars == <<lastOk, lastSaved, prevReturn>>

\* The second checkForUpdate invocation and the history of the saves
raceVars == <<parked, who, finished, lastSave>>

vars == <<checkVars, detectVars, updateVars, allVars, cmpVars, issueVars, histVars, raceVars>>
\* What checkForUpdate and resolveChannel do not touch
notCheckVars == <<detectVars, updateVars, allVars, cmpVars, issueVars, histVars, raceVars>>
\* What detectInstallMethod does not touch
notDetectVars == <<checkVars, updateVars, allVars, cmpVars, issueVars, histVars, raceVars>>
\* What performUpdate does not touch
notUpdateVars == <<checkVars, detectVars, allVars, cmpVars, issueVars, histVars, raceVars>>
\* What fetchAllChannelVersions does not touch
notAllVars == <<detectVars, updateVars, cmpVars, issueVars, histVars, raceVars>>
\* What compareSemver does not touch
notCmpVars == <<checkVars, detectVars, updateVars, allVars, issueVars, histVars, raceVars>>
\* What checkForUpdate does not touch, the history of its results apart
notHistVars == <<detectVars, updateVars, allVars, cmpVars, issueVars, raceVars>>
notRaceVars == <<detectVars, updateVars, allVars, cmpVars, issueVars, histVars>>
\* What checkForUpdate does not touch, the history of its requests apart
notIssueVars == <<detectVars, updateVars, allVars, cmpVars, histVars, raceVars>>

-----------------------------------------------------------------------------
(* Optional values                                                         *)

None == {}
Some(v) == {v}
Val(o) == CHOOSE v \in o : TRUE
\* a ?? b
Coalesce(o, d) == IF o = None THEN d ELSE Val(o)

-----------------------------------------------------------------------------
(* Characters and strings                                                  *)

\* The characters used, in code-unit order (JavaScript string comparison).
Alphabet ==
    <<"\t", "\n", " ", "-", ".",
      "0", "1", "2", "3", "4", "5", "6", "7", "8", "9",
      "A", "B", "C", "D", "E", "F", "G", "H", "I", "J", "K", "L", "M",
      "N", "O", "P", "Q", "R", "S", "T", "U", "V", "W", "X", "Y", "Z",
      "a", "b", "c", "d", "e", "f", "g", "h", "i", "j", "k", "l", "m",
      "n", "o", "p", "q", "r", "s", "t", "u", "v", "w", "x", "y", "z">>

Ord(c) == CHOOSE i \in 1..Len(Alphabet) : Alphabet[i] = c

Whitespace == {"\t", "\n", " "}
Digits == {"0", "1", "2", "3", "4", "5", "6", "7", "8", "9"}

IsUpper(c) == Ord(c) >= Ord("A") /\ Ord(c) <= Ord("Z")

\* String.prototype.toLowerCase, one character
LowerChar(c) == IF IsUpper(c) THEN Alphabet[Ord(c) + (Ord("a") - Ord("A"))] ELSE c

\* String.prototype.toLowerCase
toLowerCase(s) == [i \in 1..Len(s) |-> LowerChar(s[i])]

RECURSIVE TrimStart(_)
TrimStart(s) ==
    IF s # <<>> /\ Head(s) \in Whitespace THEN TrimStart(Tail(s)) ELSE s

RECURSIVE TrimEnd(_)
TrimEnd(s) ==
    IF s # <<>> /\ s[Len(s)] \in Whitespace
    THEN TrimEnd(SubSeq(s, 1, Len(s) - 1))
    ELSE s

\* String.prototype.trim
trim(s) == TrimEnd(TrimStart(s))

\* The characters of the three channel names
StableChars == <<"s", "t", "a", "b", "l", "e">>
BetaChars == <<"b", "e", "t", "a">>
NightlyChars == <<"n", "i", "g", "h", "t", "l", "y">>

\* The characters of the string literals of self-updater.ts and of the
\* directory names of the installation paths
Chars(s) ==
    CASE s = "milaidy/" ->
           <<"m", "i", "l", "a", "i", "d", "y", "/">>
      [] s = "milaidy" ->
           <<"m", "i", "l", "a", "i", "d", "y">>
      [] s = "/Cellar/" ->
           <<"/", "C", "e", "l", "l", "a", "r", "/">>
      [] s = "/homebrew/" ->
           <<"/", "h", "o", "m", "e", "b", "r", "e", "w", "/">>
      [] s = "/snap/" ->
           <<"/", "s", "n", "a", "p", "/">>
      [] s = "/flatpak/" ->
           <<"/", "f", "l", "a", "t", "p", "a", "k", "/">>
      [] s = "ai.milady.Milaidy" ->
           <<"a", "i", ".", "m", "i", "l", "a", "d", "y", ".", "M", "i", "l", "a", "i", "d", "y">>
      [] s = "/usr/" ->
           <<"/", "u", "s", "r", "/">>
      [] s = "/.bun/" ->
           <<"/", ".", "b", "u", "n", "/">>
      [] s = "/pnpm/" ->
           <<"/", "p", "n", "p", "m", "/">>
      [] s = "node_modules" ->
           <<"n", "o", "d", "e", "_", "m", "o", "d", "u", "l", "e", "s">>
      [] s = "usr" ->
           <<"u", "s", "r">>
      [] s = "home" ->
           <<"h", "o", "m", "e">>
      [] s = "opt" ->
           <<"o", "p", "t">>
      [] s = "homebrew" ->
           <<"h", "o", "m", "e", "b", "r", "e", "w">>
      [] s = "Cellar" ->
           <<"C", "e", "l", "l", "a", "r">>
      [] s = "snap" ->
           <<"s", "n", "a", "p">>
      [] s = "snapd" ->
           <<"s", "n", "a", "p", "d">>
      [] s = "flatpak" ->
           <<"f", "l", "a", "t", "p", "a", "k">>
      [] s = ".bun" ->
           <<".", "b", "u", "n">>
      [] s = "pnpm" ->
           <<"p", "n", "p", "m">>
      [] s = "bin" ->
           <<"b", "i", "n">>
      [] s = "local" ->
           <<"l", "o", "c", "a", "l">>
      [] s = "lib" ->
           <<"l", "i", "b">>
      [] s = "milaidy.mjs" ->
           <<"m", "i", "l", "a", "i", "d", "y", ".", "m", "j", "s">>
      [] s = "user" ->
           <<"u", "s", "e", "r">>
      [] s = "install" ->
           <<"i", "n", "s", "t", "a", "l", "l">>
      [] s = "global" ->
           <<"g", "l", "o", "b", "a", "l">>
      [] s = "2.0.0" ->
           <<"2", ".", "0", ".", "0">>
      [] s = "current" ->
           <<"c", "u", "r", "r", "e", "n", "t">>
      [] s = "var" ->
           <<"v", "a", "r">>
      [] s = "app" ->
           <<"a", "p", "p">>
      [] s = ".local" ->
           <<".", "l", "o", "c", "a", "l">>
      [] s = "share" ->
           <<"s", "h", "a", "r", "e">>
      [] s = "5" ->
           <<"5">>

\* String.prototype.includes
Includes(s, sub) ==
    \E i \in 1..(Len(s) - Len(sub) + 1) : SubSeq(s, i, i + Len(sub) - 1) = sub

\* String.prototype.startsWith
StartsWith(s, prefix) ==
    Len(s) >= Len(prefix) /\ SubSeq(s, 1, Len(prefix)) = prefix

-----------------------------------------------------------------------------
(* Semantic versions: compareSemver of ./version-compat.js                 *)

\* s split at every occurrence of the character sep
RECURSIVE SplitOn(_, _)
SplitOn(s, sep) ==
    IF \E i \in 1..Len(s) : s[i] = sep
    THEN LET i == CHOOSE k \in 1..Len(s) :
                      s[k] = sep /\ \A j \in 1..(k - 1) : s[j] # sep
         IN  <<SubSeq(s, 1, i - 1)>> \o SplitOn(SubSeq(s, i + 1, Len(s)), sep)
    ELSE <<s>>

IsNumeric(s) == s # <<>> /\ \A i \in 1..Len(s) : s[i] \in Digits

DigitValue(c) == Ord(c) - Ord("0")

RECURSIVE ToNumber(_)
ToNumber(s) ==
    IF s = <<>> THEN 0
    ELSE 10 * ToNumber(SubSeq(s, 1, Len(s) - 1)) + DigitValue(s[Len(s)])

\* major.minor.patch with an optional -<prerelease>; None when not parseable
parseSemver(v) ==
    LET hasDash == \E i \in 1..Len(v) : v[i] = "-"
        dash == IF hasDash
                THEN CHOOSE k \in 1..Len(v) :
                         v[k] = "-" /\ \A j \in 1..(k - 1) : v[j] # "-"
                ELSE Len(v) + 1
        core == SplitOn(SubSeq(v, 1, dash - 1), ".")
        pre == SubSeq(v, dash + 1, Len(v))
    IN  IF /\ Len(core) = 3
           /\ \A i \in 1..3 : IsNumeric(core[i])
           /\ hasDash => pre # <<>>
        THEN Some([major |-> ToNumber(core[1]),
                   minor |-> ToNumber(core[2]),
                   patch |-> ToNumber(core[3]),
                   pre |-> IF hasDash THEN SplitOn(pre, ".") ELSE <<>>])
        ELSE None

Sign(n) == IF n < 0 THEN -1 ELSE IF n > 0 THEN 1 ELSE 0

\* Code-unit order of two strings
RECURSIVE CompareText(_, _)
CompareText(a, b) ==
    IF a = <<>> /\ b = <<>> THEN 0
    ELSE IF a = <<>> THEN -1
    ELSE IF b = <<>> THEN 1
    ELSE IF Head(a) # Head(b) THEN Sign(Ord(Head(a)) - Ord(Head(b)))
    ELSE CompareText(Tail(a), Tail(b))

\* Every prerelease field compared as text
CompareField_Lexical(a, b) == CompareText(a, b)

\* One prerelease field against another
CompareField(a, b) ==
    IF IsNumeric(a) /\ IsNumeric(b)
    THEN Sign(ToNumber(a) - ToNumber(b))
    ELSE CompareText(a, b)

\* Two prerelease field lists; a shorter list that is a prefix sorts lower
RECURSIVE ComparePre(_, _)
ComparePre(p, q) ==
    IF p = <<>> /\ q = <<>> THEN 0
    ELSE IF p = <<>> THEN -1
    ELSE IF q = <<>> THEN 1
    ELSE IF CompareField(Head(p), Head(q)) # 0
         THEN CompareField(Head(p), Head(q))
    ELSE ComparePre(Tail(p), Tail(q))

\* compareSemver(a, b): {-1}, {0}, {1}, or None when a or b does not parse
compareSemver(a, b) ==
    LET pa == parseSemver(a)
        pb == parseSemver(b)
    IN  IF pa = None \/ pb = None THEN None
        ELSE LET x == Val(pa)
                 y == Val(pb)
             IN  Some(IF x.major # y.major THEN Sign(x.major - y.major)
                      ELSE IF x.minor # y.minor THEN Sign(x.minor - y.minor)
                      ELSE IF x.patch # y.patch THEN Sign(x.patch - y.patch)
                      ELSE IF x.pre = <<>> /\ y.pre = <<>> THEN 0
                      ELSE IF x.pre = <<>> THEN 1
                      ELSE IF y.pre = <<>> THEN -1
                      ELSE ComparePre(x.pre, y.pre))

\* The version strings of the model
V_2_0_0_alpha_7 == <<"2", ".", "0", ".", "0", "-", "a", "l", "p", "h", "a", ".", "7">>
V_2_0_0_alpha_10 ==
    <<"2", ".", "0", ".", "0", "-", "a", "l", "p", "h", "a", ".", "1", "0">>
V_2_0_0 == <<"2", ".", "0", ".", "0">>
V_2_1_0 == <<"2", ".", "1", ".", "0">>
V_2_1_0_beta_1 == <<"2", ".", "1", ".", "0", "-", "b", "e", "t", "a", ".", "1">>
V_1_9_0 == <<"1", ".", "9", ".", "0">>
V_next == <<"n", "e", "x", "t">>
V_empty == <<>>
V_2_0_0_alpha == <<"2", ".", "0", ".", "0", "-", "a", "l", "p", "h", "a">>
V_2_0_0_beta_1 ==
    <<"2", ".", "0", ".", "0", "-", "b", "e", "t", "a", ".", "1">>
V_2_0_9 == <<"2", ".", "0", ".", "9">>
V_2_0_10 == <<"2", ".", "0", ".", "1", "0">>
V_2_10_0 == <<"2", ".", "1", "0", ".", "0">>
V_10_0_0 == <<"1", "0", ".", "0", ".", "0">>
V_2_1 == <<"2", ".", "1">>
V_2_x_0 == <<"2", ".", "x", ".", "0">>

\* import { VERSION } from "../runtime/version.js"
VERSION == V_2_0_0_alpha_7

-----------------------------------------------------------------------------
(* Constants of update-checker.ts and bounds of the model                  *)

\* Default minimum seconds between registry checks
DEFAULT_CHECK_INTERVAL_SECONDS == 14400

\* HTTP timeout for registry requests (ms)
REGISTRY_TIMEOUT_MS == 8000

\* Time passes between invocations up to the next multiple of GridMs
GridMs == 3600000
\* The clock stops at MaxTime
MaxTime == 14412000
\* A registry response arrives at once or after ResponseDelayMs (< the timeout)
ResponseDelayMs == 4000
\* A request is issued only if it settles within MaxDrift of a multiple of GridMs
MaxDrift == 8000

-----------------------------------------------------------------------------
(* Configuration (../config/config.js, ../config/types.milaidy.js)         *)

ReleaseChannels == {"stable", "beta", "nightly"}

\* CHANNEL_DIST_TAGS[channel]; a key outside the table reads as undefined
CHANNEL_DIST_TAGS(ch) ==
    CASE ch = "stable" -> "latest"
      [] ch = "beta" -> "beta"
      [] ch = "nightly" -> "nightly"
      [] OTHER -> "undefined"

\* UpdateConfig: every field optional
UpdateConfigOf(ch, at, ver, ivl) ==
    [channel |-> ch, lastCheckAt |-> at, lastCheckVersion |-> ver,
     checkIntervalSeconds |-> ivl]

\* updateConfig?.field
Field(updateConfig, f) ==
    IF updateConfig = None THEN None ELSE Val(updateConfig)[f]

\* Persisted channel strings: unset, of the enumeration, one outside it
ConfigChannels == {None, Some("nightly"), Some("canary")}
ConfigChannelsAll == ConfigChannels \cup {Some("stable"), Some("beta")}

\* The configurations a run can start from
InitConfigs ==
    {[update |-> None, agent |-> "agent"]} \cup
    {[update |-> Some(UpdateConfigOf(ch, last[1], last[2], ivl)), agent |-> "agent"] :
        ch \in ConfigChannels,
        last \in {<<None, None>>, <<Some(0), None>>, <<Some(0), Some(V_2_1_0)>>},
        ivl \in {None, Some(3600)}}

\* Values of MILAIDY_UPDATE_CHANNEL
EnvUnset == [set |-> FALSE, val |-> <<>>]
EnvOf(s) == [set |-> TRUE, val |-> s]
EnvValues ==
    {EnvUnset,
     EnvOf(<<" ", " ", "B", "E", "T", "A", " ", " ">>),
     EnvOf(<<"i", "n", "v", "a", "l", "i", "d">>)}
EnvValuesAll ==
    EnvValues \cup
    {EnvOf(<<>>),
     EnvOf(<<" ", "\t", " ">>),
     EnvOf(<<"N", "I", "G", "H", "T", "L", "Y">>),
     EnvOf(<<"n", "i", "g", "h", "t", "l", "y">>),
     EnvOf(<<"\t", "S", "t", "a", "b", "l", "e", "\n">>),
     EnvOf(<<"b", "e", " ", "t", "a">>),
     EnvOf(<<"n", "i", "g", "h", "t", "l">>),
     EnvOf(<<"b", "e", "t", "a", "s">>)}

\* loadMilaidyConfig(): the persisted configuration, or None when it throws
\* (the file cannot be read or parsed)
loadMilaidyConfig(ok) == IF ok THEN Some(disk) ELSE None

\* saveMilaidyConfig(cfg): the file afterwards; it is unchanged when the call throws
saveMilaidyConfig(cfg, ok) == IF ok THEN cfg ELSE disk

-----------------------------------------------------------------------------
(* resolveChannel and the check interval gate                              *)

\* resolveChannel comparing the raw environment value, lower-cased but not trimmed
resolveChannel_NoTrim(updateConfig) ==
    LET envChannel == IF env.set THEN Some(toLowerCase(env.val)) ELSE None
    IN  IF envChannel = Some(StableChars) THEN "stable"
        ELSE IF envChannel = Some(BetaChars) THEN "beta"
        ELSE IF envChannel = Some(NightlyChars) THEN "nightly"
        ELSE Coalesce(Field(updateConfig, "channel"), "stable")

\* resolveChannel(updateConfig), reading process.env.MILAIDY_UPDATE_CHANNEL
resolveChannel(updateConfig) ==
    LET envChannel == IF env.set THEN Some(toLowerCase(trim(env.val))) ELSE None
    IN  IF envChannel = Some(StableChars) THEN "stable"
        ELSE IF envChannel = Some(BetaChars) THEN "beta"
        ELSE IF envChannel = Some(NightlyChars) THEN "nightly"
        ELSE Coalesce(Field(updateConfig, "channel"), "stable")

\* shouldSkipCheck with the elapsed milliseconds compared to the seconds of
\* the interval
shouldSkipCheck_Millis(updateConfig) ==
    IF Field(updateConfig, "lastCheckAt") = None THEN FALSE
    ELSE LET intervalSeconds ==
                 Coalesce(Field(updateConfig, "checkIntervalSeconds"),
                          DEFAULT_CHECK_INTERVAL_SECONDS)
             lastCheck == Val(Field(updateConfig, "lastCheckAt"))
         IN  (now - lastCheck) < intervalSeconds

\* shouldSkipCheck without the default interval: never skips when
\* checkIntervalSeconds is unset
shouldSkipCheck_NoDefault(updateConfig) ==
    IF Field(updateConfig, "lastCheckAt") = None THEN FALSE
    ELSE IF Field(updateConfig, "checkIntervalSeconds") = None THEN FALSE
    ELSE (now - Val(Field(updateConfig, "lastCheckAt"))) <
             Val(Field(updateConfig, "checkIntervalSeconds")) * 1000

\* shouldSkipCheck skipping also when exactly the interval has elapsed
shouldSkipCheck_Inclusive(updateConfig) ==
    IF Field(updateConfig, "lastCheckAt") = None THEN FALSE
    ELSE LET intervalSeconds ==
                 Coalesce(Field(updateConfig, "checkIntervalSeconds"),
                          DEFAULT_CHECK_INTERVAL_SECONDS)
             lastCheck == Val(Field(updateConfig, "lastCheckAt"))
         IN  (now - lastCheck) <= intervalSeconds * 1000

\* shouldSkipCheck(updateConfig), reading Date.now().
\* elapsed = (Date.now() - lastCheck) / 1000 < intervalSeconds, without rounding
shouldSkipCheck(updateConfig) ==
    IF Field(updateConfig, "lastCheckAt") = None THEN FALSE
    ELSE LET intervalSeconds ==
                 Coalesce(Field(updateConfig, "checkIntervalSeconds"),
                          DEFAULT_CHECK_INTERVAL_SECONDS)
             lastCheck == Val(Field(updateConfig, "lastCheckAt"))
         IN  (now - lastCheck) < intervalSeconds * 1000

-----------------------------------------------------------------------------
(* The registry                                                            *)

EmptyTags == [t \in {} |-> <<>>]

\* dist-tags objects the registry can answer with
RegistryMaps ==
    {[latest |-> V_2_1_0, beta |-> V_2_1_0_beta_1, nightly |-> V_2_0_0_alpha_10],
     [latest |-> V_2_0_0_alpha_7, beta |-> V_1_9_0],
     [latest |-> V_next, beta |-> V_empty],
     EmptyTags}

\* How a request ends when the timer does not fire first
Outcome(kind, distTags) == [kind |-> kind, distTags |-> distTags]
Outcomes ==
    {Outcome("transport_error", None),
     Outcome("non_2xx", None),
     Outcome("non_2xx", Some([latest |-> V_2_1_0])),   \* an error page with a body
     Outcome("malformed_json", None),
     Outcome("ok", None)} \cup        \* a body without a dist-tags field
    {Outcome("ok", Some(m)) : m \in RegistryMaps}
Aborted == Outcome("aborted", None)

\* fetchDistTags without the response.ok test
fetchDistTags_IgnoresStatus(outcome) ==
    IF outcome.kind \in {"transport_error", "aborted"} THEN None
    ELSE IF outcome.kind = "malformed_json" THEN None
    ELSE outcome.distTags

\* fetchDistTags(): what it returns for the way the request ended
fetchDistTags(outcome) ==
    IF outcome.kind \in {"transport_error", "aborted"} THEN None   \* catch
    ELSE IF outcome.kind = "non_2xx" THEN None                   \* !response.ok
    ELSE IF outcome.kind = "malformed_json" THEN None            \* catch
    ELSE outcome.distTags                                        \* ?? null

-----------------------------------------------------------------------------
(* checkForUpdate: the pieces of its body                                  *)

ErrUnreachable == [kind |-> "registry_unreachable", names |-> {}]
\* `No version found for dist-tag "${distTag}". The "${channel}" channel may
\*  not have any published releases yet.`
ErrNoVersion(distTag, ch) ==
    [kind |-> "no_published_releases", names |-> {distTag, ch}]

\* JavaScript truthiness of a string | null | undefined
Truthy(o) == o # None /\ Val(o) # <<>>

\* The gate without the force test
SkipGate_IgnoresForce(f, updateConfig) == shouldSkipCheck(updateConfig)

\* !options?.force && shouldSkipCheck(updateConfig)
SkipGate(f, updateConfig) == ~f /\ shouldSkipCheck(updateConfig)

\* The cached branch taking a null comparison for "older"
CachedResult_NullAsOlder(updateConfig, ch) ==
    LET last == Field(updateConfig, "lastCheckVersion")
    IN  [updateAvailable |->
             IF Truthy(last)
             THEN Coalesce(compareSemver(VERSION, Val(last)), -1) < 0
             ELSE FALSE,
         currentVersion |-> VERSION,
         latestVersion |-> last,
         channel |-> ch,
         distTag |-> CHANNEL_DIST_TAGS(ch),
         cached |-> TRUE,
         error |-> None]

\* The result of the cached branch
CachedResult(updateConfig, ch) ==
    LET last == Field(updateConfig, "lastCheckVersion")
    IN  [updateAvailable |->
             IF Truthy(last)
             THEN Coalesce(compareSemver(VERSION, Val(last)), 0) < 0
             ELSE FALSE,
         currentVersion |-> VERSION,
         latestVersion |-> last,
         channel |-> ch,
         distTag |-> CHANNEL_DIST_TAGS(ch),
         cached |-> TRUE,
         error |-> None]

\* The network-failure result falling back to the last version seen
NetworkFailure_KeepsLastVersion(ch) ==
    [updateAvailable |-> FALSE,
     currentVersion |-> VERSION,
     latestVersion |-> Field(Val(config).update, "lastCheckVersion"),
     channel |-> ch,
     distTag |-> CHANNEL_DIST_TAGS(ch),
     cached |-> FALSE,
     error |-> Some(ErrUnreachable)]

\* The result when fetchDistTags returned null
NetworkFailure(ch) ==
    [updateAvailable |-> FALSE,
     currentVersion |-> VERSION,
     latestVersion |-> None,
     channel |-> ch,
     distTag |-> CHANNEL_DIST_TAGS(ch),
     cached |-> FALSE,
     error |-> Some(ErrUnreachable)]

\* The lookup falling back to the latest tag
LatestOf_FallsBackToLatest(distTags, distTag) ==
    IF distTag \in DOMAIN distTags THEN Some(distTags[distTag])
    ELSE IF "latest" \in DOMAIN distTags THEN Some(distTags["latest"])
    ELSE None

\* distTags[distTag] ?? null
LatestOf(distTags, distTag) ==
    IF distTag \in DOMAIN distTags THEN Some(distTags[distTag]) ELSE None

\* The result when the dist-tag has no version
NoVersion(ch) ==
    [updateAvailable |-> FALSE,
     currentVersion |-> VERSION,
     latestVersion |-> None,
     channel |-> ch,
     distTag |-> CHANNEL_DIST_TAGS(ch),
     cached |-> FALSE,
     error |-> Some(ErrNoVersion(CHANNEL_DIST_TAGS(ch), ch))]

\* The result of a successful fetch
Success(ch, latestVersion) ==
    LET cmp == compareSemver(VERSION, latestVersion)
    IN  [updateAvailable |-> cmp # None /\ Val(cmp) < 0,
         currentVersion |-> VERSION,
         latestVersion |-> Some(latestVersion),
         channel |-> ch,
         distTag |-> CHANNEL_DIST_TAGS(ch),
         cached |-> FALSE,
         error |-> None]

\* The saved config stamped with the time the check started
updatedConfig_StaleTime(cfg, latestVersion, t) ==
    LET old == IF cfg.update = None
               THEN UpdateConfigOf(None, None, None, None)
               ELSE Val(cfg.update)
    IN  [cfg EXCEPT !.update =
            Some([old EXCEPT !.lastCheckAt = Some(callAt),
                             !.lastCheckVersion = Some(latestVersion)])]

\* The saved config with the resolved channel written into update.channel
updatedConfig_WritesChannel(cfg, latestVersion, t) ==
    LET old == IF cfg.update = None
               THEN UpdateConfigOf(None, None, None, None)
               ELSE Val(cfg.update)
    IN  [cfg EXCEPT !.update =
            Some([old EXCEPT !.channel = Some(channel),
                             !.lastCheckAt = Some(t),
                             !.lastCheckVersion = Some(latestVersion)])]

\* The saved config with the time of the check but not its version
updatedConfig_DropsVersion(cfg, latestVersion, t) ==
    LET old == IF cfg.update = None
               THEN UpdateConfigOf(None, None, None, None)
               ELSE Val(cfg.update)
    IN  [cfg EXCEPT !.update = Some([old EXCEPT !.lastCheckAt = Some(t)])]

\* { ...config, update: { ...config.update, lastCheckAt, lastCheckVersion } }
\* with new Date() read at time t
updatedConfig(cfg, latestVersion, t) ==
    LET old == IF cfg.update = None
               THEN UpdateConfigOf(None, None, None, None)
               ELSE Val(cfg.update)
    IN  [cfg EXCEPT !.update =
            Some([old EXCEPT !.lastCheckAt = Some(t),
                             !.lastCheckVersion = Some(latestVersion)])]

-----------------------------------------------------------------------------
(* checkForUpdate as a state machine.  The invocation suspends once, at    *)
(* await fetchDistTags().                                                  *)

Idle ==
    /\ pc = "idle" /\ force = FALSE /\ config = None /\ channel = ""
    /\ timer = "unset" /\ request = "none" /\ callAt = 0 /\ fetches = 0
    /\ fetched = None /\ saves = <<>> /\ result = None

\* Nothing of self-updater.ts is in use
DetectIdle ==
    /\ whichOut = None /\ realOut = None /\ manifest = [kind |-> "ENOENT"]
    /\ detected = None

\* No checkForUpdate invocation has returned yet
NoHistory == lastOk = None /\ lastSaved = None /\ prevReturn = None

\* The locals of the running checkForUpdate invocation
Locals ==
    [pc |-> pc, force |-> force, config |-> config, channel |-> channel,
     timer |-> timer, request |-> request, callAt |-> callAt,
     fetches |-> fetches, fetched |-> fetched, saves |-> saves,
     result |-> result]

\* The locals of an invocation that has not started
IdleLocals ==
    [pc |-> "idle", force |-> FALSE, config |-> None, channel |-> "",
     timer |-> "unset", request |-> "none", callAt |-> 0, fetches |-> 0,
     fetched |-> None, saves |-> <<>>, result |-> None]

\* No second invocation was started and nothing was saved
NoRace ==
    parked = IdleLocals /\ who = 1 /\ finished = <<>> /\ lastSave = None

\* No registry request was issued yet
NoIssue == prevIssue = None /\ lastIssue = None

\* No direct compareSemver call was made
CmpIdle ==
    cmpA = <<>> /\ cmpB = <<>> /\ cmpDone = FALSE /\ cmpAB = None /\ cmpBA = None

\* No fetchAllChannelVersions invocation is running
AllIdle == apc = "idle" /\ versions = None

\* No performUpdate invocation is running
UpdateIdle ==
    /\ upc = "idle" /\ currentVersion = <<>> /\ updChannel = "" /\ method = ""
    /\ cmdInfo = None /\ spawns = 0 /\ child = "none" /\ childError = None
    /\ childExit = None /\ dataEvents = 0 /\ stderr = "" /\ resolveCalls = 0
    /\ settled = None /\ rereads = 0 /\ updateResult = None

Init ==
    /\ now = 0
    /\ env \in EnvValues
    /\ disk \in InitConfigs
    /\ resolved = None
    /\ Idle
    /\ DetectIdle
    /\ versionOut = None
    /\ UpdateIdle
    /\ AllIdle
    /\ CmpIdle
    /\ NoIssue
    /\ NoHistory
    /\ NoRace

\* Lines 140-161: load, resolve, gate, and either return the cached result or
\* issue the registry request.  loadMilaidyConfig is not guarded by a try.
CheckCall(f, loadOk) ==
    /\ pc = "idle"
    /\ force' = f
    /\ callAt' = now
    /\ UNCHANGED <<now, env, disk, resolved, fetched, saves>>
    /\ IF loadMilaidyConfig(loadOk) = None
       THEN /\ pc' = "threw"
            /\ UNCHANGED <<config, channel, timer, request, fetches, result>>
       ELSE LET updateConfig == Val(loadMilaidyConfig(loadOk)).update
                ch == resolveChannel(updateConfig)
            IN  /\ config' = loadMilaidyConfig(loadOk)
                /\ channel' = ch
                /\ IF SkipGate(f, updateConfig)
                   THEN /\ result' = Some(CachedResult(updateConfig, ch))
                        /\ pc' = "done"
                        /\ UNCHANGED <<timer, request, fetches>>
                   ELSE \* bound of the model: see MaxDrift
                        /\ (now % GridMs) + REGISTRY_TIMEOUT_MS <= MaxDrift
                        /\ pc' = "fetching"
                        /\ timer' = "armed"
                        /\ request' = "pending"
                        /\ fetches' = fetches + 1
                        /\ UNCHANGED result

\* The rest of checkForUpdate stamping lastCheckAt also when the registry was
\* unreachable
AfterFetch_StampsFailure(distTags, t, saveOk) ==
    LET cfg == Val(config)
        distTag == CHANNEL_DIST_TAGS(channel)
        old == IF cfg.update = None
               THEN UpdateConfigOf(None, None, None, None)
               ELSE Val(cfg.update)
    IN  IF distTags = None
        THEN /\ result' = Some(NetworkFailure(channel))
             /\ disk' = [cfg EXCEPT !.update =
                             Some([old EXCEPT !.lastCheckAt = Some(t)])]
             /\ UNCHANGED saves
        ELSE LET latestVersion == LatestOf(Val(distTags), distTag)
             IN  IF ~Truthy(latestVersion)
                 THEN /\ result' = Some(NoVersion(channel))
                      /\ UNCHANGED <<disk, saves>>
                 ELSE LET new == updatedConfig(cfg, Val(latestVersion), t)
                      IN  /\ saves' = Append(saves, new)
                          /\ disk' = saveMilaidyConfig(new, saveOk)
                          /\ result' = Some(Success(channel, Val(latestVersion)))

\* The rest of checkForUpdate saving only when the persisted config is still
\* the one it loaded
AfterFetch_SkipsStaleSave(distTags, t, saveOk) ==
    LET cfg == Val(config)
        distTag == CHANNEL_DIST_TAGS(channel)
    IN  IF distTags = None
        THEN /\ result' = Some(NetworkFailure(channel))
             /\ UNCHANGED <<disk, saves>>
        ELSE LET latestVersion == LatestOf(Val(distTags), distTag)
             IN  IF ~Truthy(latestVersion)
                 THEN /\ result' = Some(NoVersion(channel))
                      /\ UNCHANGED <<disk, saves>>
                 ELSE LET new == updatedConfig(cfg, Val(latestVersion), t)
                      IN  /\ IF disk = cfg
                             THEN /\ saves' = Append(saves, new)
                                  /\ disk' = saveMilaidyConfig(new, saveOk)
                             ELSE UNCHANGED <<disk, saves>>
                          /\ result' = Some(Success(channel, Val(latestVersion)))

\* The rest of checkForUpdate reporting a failed save in its result
AfterFetch_ReportsSaveError(distTags, t, saveOk) ==
    LET cfg == Val(config)
        distTag == CHANNEL_DIST_TAGS(channel)
    IN  IF distTags = None
        THEN /\ result' = Some(NetworkFailure(channel))
             /\ UNCHANGED <<disk, saves>>
        ELSE LET latestVersion == LatestOf(Val(distTags), distTag)
             IN  IF ~Truthy(latestVersion)
                 THEN /\ result' = Some(NoVersion(channel))
                      /\ UNCHANGED <<disk, saves>>
                 ELSE LET new == updatedConfig(cfg, Val(latestVersion), t)
                      IN  /\ saves' = Append(saves, new)
                          /\ disk' = saveMilaidyConfig(new, saveOk)
                          /\ result' =
                                 IF saveOk
                                 THEN Some(Success(channel, Val(latestVersion)))
                                 ELSE Some([Success(channel, Val(latestVersion))
                                               EXCEPT !.error = Some("save failed")])

\* Lines 163-215: the rest of checkForUpdate once fetchDistTags has returned
\* distTags at time t; saveOk says whether saveMilaidyConfig returns or throws.
AfterFetch(distTags, t, saveOk) ==
    LET cfg == Val(config)
        distTag == CHANNEL_DIST_TAGS(channel)
    IN  IF distTags = None
        THEN /\ result' = Some(NetworkFailure(channel))
             /\ UNCHANGED <<disk, saves>>
        ELSE LET latestVersion == LatestOf(Val(distTags), distTag)
             IN  IF ~Truthy(latestVersion)
                 THEN /\ result' = Some(NoVersion(channel))
                      /\ UNCHANGED <<disk, saves>>
                 ELSE LET new == updatedConfig(cfg, Val(latestVersion), t)
                      IN  /\ saves' = Append(saves, new)
                          /\ disk' = saveMilaidyConfig(new, saveOk)
                          /\ result' = Some(Success(channel, Val(latestVersion)))

\* The registry request ends before the timer fires: fetchDistTags returns,
\* its finally clause clears the timer, and checkForUpdate runs to its return.
FetchSettle(outcome, delay, saveOk) ==
    /\ pc = "fetching"
    /\ request = "pending"
    /\ timer = "armed" => delay < REGISTRY_TIMEOUT_MS
    /\ now' = now + delay
    /\ request' = "settled"
    /\ timer' = IF timer = "armed" THEN "cleared" ELSE timer
    /\ fetched' = Some(outcome)
    /\ AfterFetch(fetchDistTags(outcome), now + delay, saveOk)
    /\ pc' = "done"
    /\ UNCHANGED <<env, force, config, channel, callAt, fetches, resolved>>

\* The timer fires without aborting the request
TimerFire_NoAbort ==
    /\ pc = "fetching"
    /\ timer = "armed"
    /\ now' = callAt + REGISTRY_TIMEOUT_MS
    /\ timer' = "fired"
    /\ UNCHANGED <<env, disk, pc, force, config, channel, request, callAt,
                   fetches, fetched, saves, result, resolved>>

\* setTimeout(() => controller.abort(), REGISTRY_TIMEOUT_MS) fires
TimerFire ==
    /\ pc = "fetching"
    /\ timer = "armed"
    /\ now' = callAt + REGISTRY_TIMEOUT_MS
    /\ timer' = "fired"
    /\ request' = IF request = "pending" THEN "aborted" ELSE request
    /\ UNCHANGED <<env, disk, pc, force, config, channel, callAt, fetches,
                   fetched, saves, result, resolved>>

\* The aborted fetch rejects: the catch clause returns null
AbortSettle ==
    /\ pc = "fetching"
    /\ request = "aborted"
    /\ request' = "settled"
    /\ fetched' = Some(Aborted)
    /\ AfterFetch(fetchDistTags(Aborted), now, TRUE)
    /\ pc' = "done"
    /\ UNCHANGED <<now, env, force, config, channel, timer, callAt, fetches,
                   resolved>>

\* The caller takes the result (or the exception); the next invocation starts
\* from fresh locals.
Return ==
    /\ pc \in {"done", "threw"}
    /\ pc' = "idle" /\ force' = FALSE /\ config' = None /\ channel' = ""
    /\ timer' = "unset" /\ request' = "none" /\ callAt' = 0 /\ fetches' = 0
    /\ fetched' = None /\ saves' = <<>> /\ result' = None
    /\ UNCHANGED <<now, env, disk, resolved>>

\* Time passes between invocations
Tick ==
    /\ pc = "idle"
    /\ now' = ((now \div GridMs) + 1) * GridMs
    /\ now' <= MaxTime
    /\ UNCHANGED <<env, disk, pc, force, config, channel, timer, request,
                   callAt, fetches, fetched, saves, result, resolved>>

Next ==
    \/ /\ \E f \in BOOLEAN, loadOk \in BOOLEAN : CheckCall(f, loadOk)
       /\ UNCHANGED notCheckVars
    \/ /\ \E o \in Outcomes, d \in {0, ResponseDelayMs}, saveOk \in BOOLEAN :
              FetchSettle(o, d, saveOk)
       /\ UNCHANGED notCheckVars
    \/ TimerFire /\ UNCHANGED notCheckVars
    \/ AbortSettle /\ UNCHANGED notCheckVars
    \/ Return /\ UNCHANGED notCheckVars
    \/ Tick /\ UNCHANGED notCheckVars

Spec == Init /\ [][Next]_vars

\* The timer callback and the rejection of an aborted fetch are tasks of the
\* event loop: once ready they run.  The registry owes no answer.
FairSpec ==
    /\ Spec
    /\ WF_vars(TimerFire /\ UNCHANGED notCheckVars)
    /\ WF_vars(AbortSettle /\ UNCHANGED notCheckVars)

-----------------------------------------------------------------------------
(* resolveChannel called directly, for every environment value             *)

ResolveConfigs ==
    {[update |-> None, agent |-> "agent"]} \cup
    {[update |-> Some(UpdateConfigOf(ch, None, None, None)), agent |-> "agent"] :
        ch \in ConfigChannelsAll}

InitResolve ==
    /\ now = 0
    /\ env \in EnvValuesAll
    /\ disk \in ResolveConfigs
    /\ resolved = None
    /\ Idle
    /\ DetectIdle
    /\ versionOut = None
    /\ UpdateIdle
    /\ AllIdle
    /\ CmpIdle
    /\ NoIssue
    /\ NoHistory
    /\ NoRace

ResolveCall ==
    /\ resolved' = Some(resolveChannel(disk.update))
    /\ UNCHANGED <<now, env, disk, pc, force, config, channel, timer, request,
                   callAt, fetches, fetched, saves, result>>

\* process.env.MILAIDY_UPDATE_CHANNEL is assigned or deleted
SetEnv(e) ==
    /\ env' = e
    /\ resolved' = None
    /\ UNCHANGED <<now, disk, pc, force, config, channel, timer, request,
                   callAt, fetches, fetched, saves, result>>

NextResolve ==
    \/ ResolveCall /\ UNCHANGED notCheckVars
    \/ (\E e \in EnvValuesAll : SetEnv(e)) /\ UNCHANGED notCheckVars

SpecResolve == InitResolve /\ [][NextResolve]_vars

-----------------------------------------------------------------------------
(* detectInstallMethod of self-updater.ts                                  *)

\* whichSync: execSync(`which ${binary}`).toString().trim(), null on a throw
whichSync(binary) ==
    IF binary = "milaidy" /\ whichOut # None
    THEN Some(trim(Val(whichOut)))
    ELSE None

isInsideNodeModules(filePath) == Includes(filePath, Chars("node_modules"))

isInsideHomebrew(filePath) ==
    Includes(filePath, Chars("/Cellar/")) \/ Includes(filePath, Chars("/homebrew/"))

isInsideSnap(filePath) == Includes(filePath, Chars("/snap/"))

isInsideFlatpak(filePath) ==
    Includes(filePath, Chars("/flatpak/")) \/
    Includes(filePath, Chars("ai.milady.Milaidy"))

\* The catch clause returns true
isLocalDev_CatchTrue ==
    IF manifest.kind # "json" THEN TRUE
    ELSE IF manifest.content = None THEN TRUE
    ELSE Val(manifest.content).devDependencies # None

\* isLocalDev: readFileSync or JSON.parse may throw, and so does reading a
\* property of the JSON value null; the catch clause returns false.
isLocalDev ==
    IF manifest.kind # "json" THEN FALSE
    ELSE IF manifest.content = None THEN FALSE
    ELSE Val(manifest.content).devDependencies # None

\* The /usr/ rule without its node_modules exclusion
detectInstallMethod_AptAnyUsr ==
    LET milaidyBin == whichSync("milaidy")
    IN  IF milaidyBin = None \/ milaidyBin = Some(<<>>)
        THEN IF isLocalDev THEN "local-dev" ELSE "unknown"
        ELSE LET resolvedPath ==
                     IF realOut = None THEN Val(milaidyBin) ELSE Val(realOut)
             IN  IF isInsideHomebrew(resolvedPath) THEN "homebrew"
                 ELSE IF isInsideSnap(resolvedPath) THEN "snap"
                 ELSE IF isInsideFlatpak(resolvedPath) THEN "flatpak"
                 ELSE IF StartsWith(resolvedPath, Chars("/usr/")) THEN "apt"
                 ELSE IF Includes(resolvedPath, Chars("/.bun/")) THEN "bun-global"
                 ELSE IF Includes(resolvedPath, Chars("/pnpm/")) THEN "pnpm-global"
                 ELSE IF isInsideNodeModules(resolvedPath) THEN "npm-global"
                 ELSE "unknown"

\* detectInstallMethod, lines 106-141.  An empty `which` output is falsy.
detectInstallMethod ==
    LET milaidyBin == whichSync("milaidy")
    IN  IF milaidyBin = None \/ milaidyBin = Some(<<>>)
        THEN IF isLocalDev THEN "local-dev" ELSE "unknown"
        ELSE LET resolvedPath ==
                     IF realOut = None THEN Val(milaidyBin) ELSE Val(realOut)
             IN  IF isInsideHomebrew(resolvedPath) THEN "homebrew"
                 ELSE IF isInsideSnap(resolvedPath) THEN "snap"
                 ELSE IF isInsideFlatpak(resolvedPath) THEN "flatpak"
                 ELSE IF /\ StartsWith(resolvedPath, Chars("/usr/"))
                         /\ ~isInsideNodeModules(resolvedPath)
                      THEN "apt"
                 ELSE IF Includes(resolvedPath, Chars("/.bun/")) THEN "bun-global"
                 ELSE IF Includes(resolvedPath, Chars("/pnpm/")) THEN "pnpm-global"
                 ELSE IF isInsideNodeModules(resolvedPath) THEN "npm-global"
                 ELSE "unknown"

\* A path from its directory and file names
RECURSIVE JoinPath(_)
JoinPath(names) ==
    IF names = <<>> THEN <<>>
    ELSE <<"/">> \o Chars(Head(names)) \o JoinPath(Tail(names))

\* The paths of the detectInstallMethod tests
TestPaths ==
    {JoinPath(<<"usr", "local", "lib", "node_modules", "milaidy", "milaidy.mjs">>),
     JoinPath(<<"home", "user", ".bun", "install", "global", "node_modules",
                "milaidy", "milaidy.mjs">>),
     JoinPath(<<"opt", "homebrew", "Cellar", "milaidy", "2.0.0", "bin", "milaidy">>),
     JoinPath(<<"snap", "milaidy", "current", "bin", "milaidy">>),
     JoinPath(<<"usr", "bin", "milaidy">>),
     JoinPath(<<"var", "lib", "flatpak", "app", "ai.milady.Milaidy", "bin",
                "milaidy">>),
     JoinPath(<<"home", "user", ".local", "share", "pnpm", "global", "5",
                "node_modules", "milaidy", "milaidy.mjs">>)}

\* Where a path may start
PrefixDirs == {<<"usr">>, <<"home", "usr">>, <<"opt">>}
\* The directory names the rules look for, and one they must not take for snap
FeatureDirs ==
    <<"homebrew", "Cellar", "snap", "snapd", "flatpak", "ai.milady.Milaidy",
      ".bun", "pnpm", "node_modules">>
FeatureNames == {FeatureDirs[i] : i \in 1..Len(FeatureDirs)}

\* Every combination of the directory names under every prefix
InstallPaths ==
    TestPaths \cup
    {JoinPath(pre \o SelectSeq(FeatureDirs, LAMBDA d : d \in S) \o
              <<"bin", "milaidy">>) :
        pre \in PrefixDirs, S \in SUBSET FeatureNames}

\* Where the name on PATH may point from when it is a symbolic link
LinkPaths ==
    {JoinPath(<<"usr", "local", "bin", "milaidy">>),
     JoinPath(<<"home", "user", ".bun", "bin", "milaidy">>)}

\* package.json: missing, not JSON, the JSON value null, or an object with or
\* without devDependencies
Manifests ==
    {[kind |-> "ENOENT"],
     [kind |-> "malformed"],
     [kind |-> "json", content |-> None]} \cup
    {[kind |-> "json", content |-> Some([name |-> "milaidy", devDependencies |-> d])] :
        d \in {None, Some({}), Some({"vitest"})}}

\* `which` prints the path and a newline
Line(p) == p \o <<"\n">>

InitDetect ==
    /\ now = 0
    /\ env = EnvUnset
    /\ disk = [update |-> None, agent |-> "agent"]
    /\ resolved = None
    /\ Idle
    /\ versionOut = None
    /\ UpdateIdle
    /\ AllIdle
    /\ CmpIdle
    /\ NoIssue
    /\ NoHistory
    /\ NoRace
    /\ detected = None
    /\ manifest \in Manifests
    /\ \/ whichOut \in {None, Some(<<>>), Some(<<"\n">>)} /\ realOut = None
       \/ whichOut \in {Some(Line(p)) : p \in InstallPaths} /\ realOut = None
       \/ /\ whichOut \in {Some(Line(p)) : p \in LinkPaths}
          /\ realOut \in {Some(p) : p \in InstallPaths}

\* detectInstallMethod() is called
DetectCall ==
    /\ detected = None
    /\ detected' = Some(detectInstallMethod)
    /\ UNCHANGED <<whichOut, realOut, manifest>>

NextDetect == DetectCall /\ UNCHANGED notDetectVars

SpecDetect == InitDetect /\ [][NextDetect]_vars

-----------------------------------------------------------------------------
(* buildUpdateCommand, runCommand, readPostUpdateVersion and performUpdate *)
(* of self-updater.ts.  Commands, arguments and messages are strings; the  *)
(* output of `milaidy --version`, which a regular expression is matched    *)
(* against, is a sequence of characters.                                   *)

InstallMethods ==
    {"npm-global", "bun-global", "pnpm-global", "homebrew", "snap", "apt",
     "flatpak", "local-dev", "unknown"}

\* The package is asked for under the channel's name, not its dist-tag
buildUpdateCommand_ChannelAsTag(m, ch) ==
    LET distTag == CHANNEL_DIST_TAGS(ch)
        spec == "milaidy@" \o ch
        snapChannel == IF ch = "nightly" THEN "edge"
                       ELSE IF ch = "beta" THEN "beta" ELSE "stable"
    IN  CASE m = "npm-global" ->
                 Some([command |-> "npm", args |-> <<"install", "-g", spec>>])
          [] m = "bun-global" ->
                 Some([command |-> "bun", args |-> <<"install", "-g", spec>>])
          [] m = "pnpm-global" ->
                 Some([command |-> "pnpm", args |-> <<"add", "-g", spec>>])
          [] m = "homebrew" ->
                 Some([command |-> "brew", args |-> <<"upgrade", "milaidy">>])
          [] m = "snap" ->
                 Some([command |-> "sudo",
                       args |-> <<"snap", "refresh", "milaidy",
                                  "--channel=" \o snapChannel>>])
          [] m = "apt" ->
                 Some([command |-> "sudo",
                       args |-> <<"apt-get", "update", "&&", "sudo", "apt-get",
                                  "install", "--only-upgrade", "milaidy">>])
          [] m = "flatpak" ->
                 Some([command |-> "flatpak",
                       args |-> <<"update", "ai.milady.Milaidy">>])
          [] m = "local-dev" -> None
          [] m = "unknown" ->
                 Some([command |-> "npm", args |-> <<"install", "-g", spec>>])

\* No fallback for an unknown installation method
buildUpdateCommand_NoFallback(m, ch) ==
    LET distTag == CHANNEL_DIST_TAGS(ch)
        spec == IF ch = "stable" THEN "milaidy@latest" ELSE "milaidy@" \o distTag
        snapChannel == IF ch = "nightly" THEN "edge"
                       ELSE IF ch = "beta" THEN "beta" ELSE "stable"
    IN  CASE m = "npm-global" ->
                 Some([command |-> "npm", args |-> <<"install", "-g", spec>>])
          [] m = "bun-global" ->
                 Some([command |-> "bun", args |-> <<"install", "-g", spec>>])
          [] m = "pnpm-global" ->
                 Some([command |-> "pnpm", args |-> <<"add", "-g", spec>>])
          [] m = "homebrew" ->
                 Some([command |-> "brew", args |-> <<"upgrade", "milaidy">>])
          [] m = "snap" ->
                 Some([command |-> "sudo",
                       args |-> <<"snap", "refresh", "milaidy",
                                  "--channel=" \o snapChannel>>])
          [] m = "apt" ->
                 Some([command |-> "sudo",
                       args |-> <<"apt-get", "update", "&&", "sudo", "apt-get",
                                  "install", "--only-upgrade", "milaidy">>])
          [] m = "flatpak" ->
                 Some([command |-> "flatpak",
                       args |-> <<"update", "ai.milady.Milaidy">>])
          [] m = "local-dev" -> None
          [] m = "unknown" ->
                 None

\* buildUpdateCommand, lines 147-206
buildUpdateCommand(m, ch) ==
    LET distTag == CHANNEL_DIST_TAGS(ch)
        spec == IF ch = "stable" THEN "milaidy@latest" ELSE "milaidy@" \o distTag
        snapChannel == IF ch = "nightly" THEN "edge"
                       ELSE IF ch = "beta" THEN "beta" ELSE "stable"
    IN  CASE m = "npm-global" ->
                 Some([command |-> "npm", args |-> <<"install", "-g", spec>>])
          [] m = "bun-global" ->
                 Some([command |-> "bun", args |-> <<"install", "-g", spec>>])
          [] m = "pnpm-global" ->
                 Some([command |-> "pnpm", args |-> <<"add", "-g", spec>>])
          [] m = "homebrew" ->
                 Some([command |-> "brew", args |-> <<"upgrade", "milaidy">>])
          [] m = "snap" ->
                 Some([command |-> "sudo",
                       args |-> <<"snap", "refresh", "milaidy",
                                  "--channel=" \o snapChannel>>])
          [] m = "apt" ->
                 Some([command |-> "sudo",
                       args |-> <<"apt-get", "update", "&&", "sudo", "apt-get",
                                  "install", "--only-upgrade", "milaidy">>])
          [] m = "flatpak" ->
                 Some([command |-> "flatpak",
                       args |-> <<"update", "ai.milady.Milaidy">>])
          [] m = "local-dev" -> None
          [] m = "unknown" ->
                 Some([command |-> "npm", args |-> <<"install", "-g", spec>>])

\* Array.prototype.join(" ")
RECURSIVE JoinArgs(_)
JoinArgs(args) ==
    IF args = <<>> THEN ""
    ELSE IF Len(args) = 1 THEN args[1]
    ELSE args[1] \o " " \o JoinArgs(Tail(args))

\* `${cmdInfo.command} ${cmdInfo.args.join(" ")}`
commandString(info) == info.command \o " " \o JoinArgs(info.args)

\* \w of a regular expression
WordChars ==
    {Alphabet[i] : i \in Ord("0")..Ord("9")} \cup
    {Alphabet[i] : i \in Ord("A")..Ord("Z")} \cup
    {Alphabet[i] : i \in Ord("a")..Ord("z")} \cup {"_"}

\* The last index of the longest run of characters of cs in s that starts at
\* i; i - 1 when s[i] is not in cs
RECURSIVE RunEnd(_, _, _)
RunEnd(s, i, cs) ==
    IF i <= Len(s) /\ s[i] \in cs THEN RunEnd(s, i + 1, cs) ELSE i - 1

\* Where a match of /\d+\.\d+\.\d+(?:-[\w.]+)?/ that starts at i ends; 0 when
\* there is none.  Every quantifier is greedy.
VersionMatchEnd(s, i) ==
    LET a == RunEnd(s, i, Digits)
        b == RunEnd(s, a + 2, Digits)
        c == RunEnd(s, b + 2, Digits)
        q == RunEnd(s, c + 2, WordChars \cup {"."})
    IN  IF /\ a >= i
           /\ a + 1 <= Len(s) /\ s[a + 1] = "."
           /\ b >= a + 2
           /\ b + 1 <= Len(s) /\ s[b + 1] = "."
           /\ c >= b + 2
        THEN IF c + 1 <= Len(s) /\ s[c + 1] = "-" /\ q >= c + 2 THEN q ELSE c
        ELSE 0

\* readPostUpdateVersion, lines 245-259: the first match in the trimmed
\* output, null without a match or when execSync throws
readPostUpdateVersion ==
    IF versionOut = None THEN None
    ELSE LET output == trim(Val(versionOut))
             starts == {i \in 1..Len(output) : VersionMatchEnd(output, i) # 0}
         IN  IF starts = {} THEN None
             ELSE LET i == CHOOSE k \in starts : \A j \in starts : k <= j
                  IN  Some(SubSeq(output, i, VersionMatchEnd(output, i)))

LocalDevError ==
    "Cannot auto-update a local development install. Use git pull instead."
NoCommandError ==
    "Unable to determine update command for this installation method."

\* Lines 275-287 with the two messages exchanged
NoCommandResult_Exchanged(m, cv) ==
    [success |-> FALSE, method |-> m, command |-> "", previousVersion |-> cv,
     newVersion |-> None,
     error |-> Some(IF m = "local-dev" THEN NoCommandError ELSE LocalDevError)]

\* Lines 275-287: the result when there is no command to run
NoCommandResult(m, cv) ==
    [success |-> FALSE, method |-> m, command |-> "", previousVersion |-> cv,
     newVersion |-> None,
     error |-> Some(IF m = "local-dev" THEN LocalDevError ELSE NoCommandError)]

\* Lines 292-301 without the fallback message
FailedResult_NoFallback(m, cmd, cv, exitCode, stderrText) ==
    [success |-> FALSE, method |-> m, command |-> cmd, previousVersion |-> cv,
     newVersion |-> None, error |-> Some(stderrText)]

\* Lines 292-301: the result after a nonzero exit code;
\* stderr || `Update command exited with code ${exitCode}.`
FailedResult(m, cmd, cv, exitCode, stderrText) ==
    [success |-> FALSE, method |-> m, command |-> cmd, previousVersion |-> cv,
     newVersion |-> None,
     error |-> Some(IF stderrText # "" THEN stderrText
                    ELSE "Update command exited with code " \o
                         ToString(exitCode) \o ".")]

\* Lines 306-313 with success taken from the re-read version
SucceededResult_NeedsVersion(m, cmd, cv, newVersion) ==
    [success |-> newVersion # None, method |-> m, command |-> cmd,
     previousVersion |-> cv, newVersion |-> newVersion, error |-> None]

\* Lines 306-313: the result after exit code 0
SucceededResult(m, cmd, cv, newVersion) ==
    [success |-> TRUE, method |-> m, command |-> cmd, previousVersion |-> cv,
     newVersion |-> newVersion, error |-> None]

\* Bound: data events of the stderr pipe per child
MaxDataEvents == 2
\* What the child writes to stderr
StderrChunks == {"E: Permission denied\n", "npm ERR! code EACCES\n"}
\* The message of the error event when the shell cannot be started
SpawnErrorMessages == {"spawn /bin/sh ENOENT"}
\* The codes of the close event of a child that ran: an exit code, or null
\* when a signal ended it
CloseCodes == {Some(0), Some(1), Some(127), None}
\* The code of the close event of a child that did not start (-ENOENT)
SpawnErrorCode == -2

\* What `milaidy --version` prints
VersionOutputs ==
    {Line(Chars("milaidy/") \o V_2_1_0),
     Line(V_2_1_0_beta_1),
     Line(Chars("milaidy"))}

\* One installation per install method
Installations ==
    {[which |-> Some(Line(p)), manifest |-> [kind |-> "ENOENT"]] : p \in TestPaths}
    \cup
    {[which |-> None, manifest |-> m] :
        m \in {[kind |-> "ENOENT"],
               [kind |-> "json",
                content |-> Some([name |-> "milaidy",
                                  devDependencies |-> Some({"vitest"})])]}}

InitUpdate ==
    /\ now = 0
    /\ env = EnvUnset
    /\ disk = [update |-> None, agent |-> "agent"]
    /\ resolved = None
    /\ Idle
    /\ detected = None
    /\ realOut = None
    /\ \E i \in Installations : whichOut = i.which /\ manifest = i.manifest
    /\ versionOut \in {None} \cup {Some(o) : o \in VersionOutputs}
    /\ UpdateIdle
    /\ AllIdle
    /\ CmpIdle
    /\ NoIssue
    /\ NoHistory
    /\ NoRace

\* Lines 272-290: detect, build the command, and either return at once or
\* start the child (the executor of runCommand's promise, lines 221-231)
PerformCall(cv, ch) ==
    /\ upc = "idle"
    /\ currentVersion' = cv
    /\ updChannel' = ch
    /\ method' = detectInstallMethod
    /\ cmdInfo' = buildUpdateCommand(detectInstallMethod, ch)
    /\ IF buildUpdateCommand(detectInstallMethod, ch) = None
       THEN /\ updateResult' = Some(NoCommandResult(detectInstallMethod, cv))
            /\ upc' = "done"
            /\ UNCHANGED <<spawns, child, stderr>>
       ELSE /\ spawns' = spawns + 1
            /\ child' = "running"
            /\ stderr' = ""
            /\ upc' = "running"
            /\ UNCHANGED updateResult
    /\ UNCHANGED <<versionOut, childError, childExit, dataEvents, resolveCalls,
                   settled, rereads>>

\* A resolve function whose last call decides the value
Settle_LastWins(value) ==
    /\ resolveCalls' = resolveCalls + 1
    /\ settled' = Some(value)

\* The promise's resolve function: only the first call settles the promise
Settle(value) ==
    /\ resolveCalls' = resolveCalls + 1
    /\ settled' = IF settled = None THEN Some(value) ELSE settled

\* child.stderr.on("data"), lines 227-230
StderrData(chunk) ==
    /\ child = "running"
    /\ dataEvents < MaxDataEvents
    /\ dataEvents' = dataEvents + 1
    /\ stderr' = stderr \o chunk
    /\ UNCHANGED <<versionOut, upc, currentVersion, updChannel, method, cmdInfo,
                   spawns, child, childError, childExit, resolveCalls, settled,
                   rereads, updateResult>>

\* child.on("error"), lines 232-234: the shell could not be started
ChildError(message) ==
    /\ child = "running"
    /\ dataEvents = 0
    /\ child' = "failed"
    /\ childError' = Some(message)
    /\ Settle([exitCode |-> 1, stderr |-> message])
    /\ UNCHANGED <<versionOut, upc, currentVersion, updChannel, method, cmdInfo,
                   spawns, childExit, dataEvents, stderr, rereads, updateResult>>

\* child.on("close"), lines 236-238; code ?? 1
ChildClose(code) ==
    /\ \/ child = "running" /\ code \in CloseCodes
       \/ child = "failed" /\ code = Some(SpawnErrorCode)
    /\ child' = "closed"
    /\ childExit' = Some([code |-> code])
    /\ Settle([exitCode |-> Coalesce(code, 1), stderr |-> stderr])
    /\ UNCHANGED <<versionOut, upc, currentVersion, updChannel, method, cmdInfo,
                   spawns, childError, dataEvents, stderr, rereads,
                   updateResult>>

\* Lines 290-313: performUpdate resumes with the value of the promise
Resume ==
    /\ upc = "running"
    /\ settled # None
    /\ LET exitCode == Val(settled).exitCode
           stderrText == Val(settled).stderr
           cmd == commandString(Val(cmdInfo))
       IN  IF exitCode # 0
           THEN /\ updateResult' = Some(FailedResult(method, cmd, currentVersion,
                                                     exitCode, stderrText))
                /\ UNCHANGED rereads
           ELSE /\ rereads' = rereads + 1
                /\ updateResult' = Some(SucceededResult(method, cmd, currentVersion,
                                                        readPostUpdateVersion))
    /\ upc' = "done"
    /\ UNCHANGED <<versionOut, currentVersion, updChannel, method, cmdInfo,
                   spawns, child, childError, childExit, dataEvents, stderr,
                   resolveCalls, settled>>

\* The caller takes the result and the child is gone; the next invocation
\* starts from fresh locals.
UpdateReturn ==
    /\ upc = "done"
    /\ child \in {"none", "closed"}
    /\ upc' = "idle" /\ currentVersion' = <<>> /\ updChannel' = "" /\ method' = ""
    /\ cmdInfo' = None /\ spawns' = 0 /\ child' = "none" /\ childError' = None
    /\ childExit' = None /\ dataEvents' = 0 /\ stderr' = "" /\ resolveCalls' = 0
    /\ settled' = None /\ rereads' = 0 /\ updateResult' = None
    /\ UNCHANGED versionOut

NextUpdate ==
    \/ (\E ch \in ReleaseChannels : PerformCall(VERSION, ch))
           /\ UNCHANGED notUpdateVars
    \/ (\E chunk \in StderrChunks : StderrData(chunk)) /\ UNCHANGED notUpdateVars
    \/ (\E message \in SpawnErrorMessages : ChildError(message))
           /\ UNCHANGED notUpdateVars
    \/ (\E code \in CloseCodes \cup {Some(SpawnErrorCode)} : ChildClose(code))
           /\ UNCHANGED notUpdateVars
    \/ Resume /\ UNCHANGED notUpdateVars
    \/ UpdateReturn /\ UNCHANGED notUpdateVars

SpecUpdate == InitUpdate /\ [][NextUpdate]_vars

-----------------------------------------------------------------------------
(* fetchAllChannelVersions of update-checker.ts                            *)

\* Lines 224-229 with the stable version standing in for a missing tag
ChannelVersions_FallBackToLatest(distTags) ==
    LET stable == IF distTags = None THEN None
                  ELSE LatestOf(Val(distTags), "latest")
        At(tag) == IF distTags = None THEN None
                   ELSE IF LatestOf(Val(distTags), tag) = None THEN stable
                   ELSE LatestOf(Val(distTags), tag)
    IN  [stable |-> stable, beta |-> At("beta"), nightly |-> At("nightly")]

\* Lines 224-229: distTags?.[tag] ?? null for the three tags
ChannelVersions(distTags) ==
    LET At(tag) == IF distTags = None THEN None
                   ELSE LatestOf(Val(distTags), tag)
    IN  [stable |-> At("latest"), beta |-> At("beta"), nightly |-> At("nightly")]

\* Line 223: fetchAllChannelVersions calls fetchDistTags, which issues the
\* request and arms its timer
AllCall ==
    /\ pc = "idle" /\ apc = "idle"
    \* bound of the model: see MaxDrift
    /\ (now % GridMs) + REGISTRY_TIMEOUT_MS <= MaxDrift
    /\ apc' = "fetching"
    /\ callAt' = now
    /\ timer' = "armed"
    /\ request' = "pending"
    /\ fetches' = fetches + 1
    /\ UNCHANGED <<now, env, disk, pc, force, config, channel, fetched, saves,
                   result, resolved, versions>>

\* The request ends before the timer fires and fetchAllChannelVersions
\* returns
AllFetchSettle(outcome, delay) ==
    /\ apc = "fetching"
    /\ request = "pending"
    /\ timer = "armed" => delay < REGISTRY_TIMEOUT_MS
    /\ now' = now + delay
    /\ request' = "settled"
    /\ timer' = IF timer = "armed" THEN "cleared" ELSE timer
    /\ fetched' = Some(outcome)
    /\ versions' = Some(ChannelVersions(fetchDistTags(outcome)))
    /\ apc' = "done"
    /\ UNCHANGED <<env, disk, pc, force, config, channel, callAt, fetches, saves,
                   result, resolved>>

\* The timer of fetchDistTags fires and aborts the request
AllTimerFire ==
    /\ apc = "fetching"
    /\ timer = "armed"
    /\ now' = callAt + REGISTRY_TIMEOUT_MS
    /\ timer' = "fired"
    /\ request' = IF request = "pending" THEN "aborted" ELSE request
    /\ UNCHANGED <<env, disk, pc, force, config, channel, callAt, fetches,
                   fetched, saves, result, resolved, apc, versions>>

\* The aborted fetch rejects: fetchDistTags returns null
AllAbortSettle ==
    /\ apc = "fetching"
    /\ request = "aborted"
    /\ request' = "settled"
    /\ fetched' = Some(Aborted)
    /\ versions' = Some(ChannelVersions(fetchDistTags(Aborted)))
    /\ apc' = "done"
    /\ UNCHANGED <<now, env, disk, pc, force, config, channel, timer, callAt,
                   fetches, saves, result, resolved>>

\* The caller takes the three versions
AllReturn ==
    /\ apc = "done"
    /\ apc' = "idle" /\ versions' = None
    /\ timer' = "unset" /\ request' = "none" /\ callAt' = 0 /\ fetches' = 0
    /\ fetched' = None
    /\ UNCHANGED <<now, env, disk, pc, force, config, channel, saves, result,
                   resolved>>

NextAll ==
    \/ AllCall /\ UNCHANGED notAllVars
    \/ (\E o \in Outcomes, d \in {0, ResponseDelayMs} : AllFetchSettle(o, d))
           /\ UNCHANGED notAllVars
    \/ AllTimerFire /\ UNCHANGED notAllVars
    \/ AllAbortSettle /\ UNCHANGED notAllVars
    \/ AllReturn /\ UNCHANGED notAllVars
    \/ apc = "idle" /\ Tick /\ UNCHANGED <<notAllVars, allVars>>

SpecAll == Init /\ [][NextAll]_vars

-----------------------------------------------------------------------------
(* compareSemver called directly on every pair of version strings          *)

\* Strings that are versions and strings that are not
CompareInputs ==
    {V_1_9_0, V_2_0_0_alpha, V_2_0_0_alpha_7, V_2_0_0_alpha_10, V_2_0_0_beta_1,
     V_2_0_0, V_2_0_9, V_2_0_10, V_2_1_0_beta_1, V_2_1_0, V_2_10_0, V_10_0_0,
     V_next, V_empty, V_2_1, V_2_x_0}

InitCompare ==
    /\ now = 0
    /\ env = EnvUnset
    /\ disk = [update |-> None, agent |-> "agent"]
    /\ resolved = None
    /\ Idle
    /\ DetectIdle
    /\ versionOut = None
    /\ UpdateIdle
    /\ AllIdle
    /\ cmpA \in CompareInputs
    /\ cmpB \in CompareInputs
    /\ cmpDone = FALSE /\ cmpAB = None /\ cmpBA = None
    /\ NoIssue
    /\ NoHistory
    /\ NoRace

\* compareSemver is called on the two strings, in both orders
CompareCall ==
    /\ ~cmpDone
    /\ cmpDone' = TRUE
    /\ cmpAB' = compareSemver(cmpA, cmpB)
    /\ cmpBA' = compareSemver(cmpB, cmpA)
    /\ UNCHANGED <<cmpA, cmpB>>

NextCompare == CompareCall /\ UNCHANGED notCmpVars

SpecCompare == InitCompare /\ [][NextCompare]_vars

-----------------------------------------------------------------------------
(* Non-forced checkForUpdate calls, one after another, on a config that    *)
(* loads and saves without error and that nothing else writes; the times   *)
(* of the registry requests are recorded.                                  *)

\* A non-forced call; a request it issues goes into the history
GateCall ==
    /\ CheckCall(FALSE, TRUE)
    /\ IF pc' = "fetching"
       THEN /\ prevIssue' = lastIssue
            /\ lastIssue' = Some([at |-> now, saved |-> FALSE])
       ELSE UNCHANGED issueVars

\* The request ends; the history notes whether the answer was saved
GateSettle(outcome, delay) ==
    /\ FetchSettle(outcome, delay, TRUE)
    /\ lastIssue' = Some([Val(lastIssue) EXCEPT !.saved = (saves' # <<>>)])
    /\ UNCHANGED prevIssue

NextGate ==
    \/ GateCall /\ UNCHANGED notIssueVars
    \/ (\E o \in Outcomes, d \in {0, ResponseDelayMs} : GateSettle(o, d))
           /\ UNCHANGED notIssueVars
    \/ TimerFire /\ UNCHANGED notCheckVars
    \/ AbortSettle /\ UNCHANGED notCheckVars
    \/ Return /\ UNCHANGED notCheckVars
    \/ Tick /\ UNCHANGED notCheckVars

SpecGate == Init /\ [][NextGate]_vars

-----------------------------------------------------------------------------
(* checkForUpdate calls, forced or not, one after another, on a config     *)
(* that loads without error and that nothing else writes; what the calls   *)
(* found, saved and returned is recorded.                                  *)

\* The configurations without a last check
FreshConfigs ==
    {c \in InitConfigs :
        Field(c.update, "lastCheckAt") = None /\
        Field(c.update, "lastCheckVersion") = None}

\* A call
HistCall(f) ==
    /\ CheckCall(f, TRUE)
    /\ UNCHANGED histVars

\* The request ends; a save that went through goes into the history
HistSettle(outcome, delay, saveOk) ==
    /\ FetchSettle(outcome, delay, saveOk)
    /\ UNCHANGED lastOk
    /\ lastSaved' = IF saves' # <<>> /\ saveOk
                    THEN Some([at |-> now',
                               version |-> Val(Val(result').latestVersion)])
                    ELSE lastSaved
    /\ UNCHANGED prevReturn

\* The caller takes the result; the history notes whether it was an error
\* and whether the call was forced
HistReturn ==
    /\ Return
    /\ prevReturn' = Some([failed |-> Val(result).error # None, forced |-> force])
    /\ UNCHANGED <<lastOk, lastSaved>>

NextHist ==
    \/ (\E f \in BOOLEAN : HistCall(f)) /\ UNCHANGED notHistVars
    \/ (\E o \in Outcomes, d \in {0, ResponseDelayMs}, saveOk \in BOOLEAN :
            HistSettle(o, d, saveOk)) /\ UNCHANGED notHistVars
    \/ TimerFire /\ UNCHANGED notCheckVars
    \/ AbortSettle /\ UNCHANGED notCheckVars
    \/ HistReturn /\ UNCHANGED notHistVars
    \/ Tick /\ UNCHANGED notCheckVars

SpecHist == Init /\ [][NextHist]_vars

-----------------------------------------------------------------------------
(* checkForUpdate calls between which the environment override changes;    *)
(* the config starts without a last check, loads and saves without error,  *)
(* and the dist-tags of the last check that found a version are recorded.  *)

InitChannel ==
    /\ Init
    /\ disk \in FreshConfigs

\* The request ends; a check that found a version goes into the history
ChanSettle(outcome, delay) ==
    /\ FetchSettle(outcome, delay, TRUE)
    /\ lastOk' = IF saves' # <<>> THEN fetchDistTags(outcome) ELSE lastOk
    /\ UNCHANGED <<lastSaved, prevReturn>>

\* MILAIDY_UPDATE_CHANNEL is assigned or deleted between two invocations
EnvChange(e) ==
    /\ pc = "idle"
    /\ e # env
    /\ SetEnv(e)

NextChannel ==
    \/ (\E f \in BOOLEAN : HistCall(f)) /\ UNCHANGED notHistVars
    \/ (\E o \in Outcomes, d \in {0, ResponseDelayMs} : ChanSettle(o, d))
           /\ UNCHANGED notHistVars
    \/ TimerFire /\ UNCHANGED notCheckVars
    \/ AbortSettle /\ UNCHANGED notCheckVars
    \/ Return /\ UNCHANGED notCheckVars
    \/ Tick /\ UNCHANGED notCheckVars
    \/ (\E e \in EnvValues : EnvChange(e)) /\ UNCHANGED notCheckVars

SpecChannel == InitChannel /\ [][NextChannel]_vars

-----------------------------------------------------------------------------
(* Two checkForUpdate invocations on one persisted config.  An invocation  *)
(* gives up control only at await fetchDistTags(); the other invocation    *)
(* (of this process or of another one) runs meanwhile.  Another process    *)
(* may also write the config.  The registry answers before the timers fire.*)

\* The runs start without an environment override, on a config with the
\* default interval
InitRace ==
    /\ Init
    /\ env = EnvUnset
    /\ Field(disk.update, "checkIntervalSeconds") = None

\* How the registry answers the two requests
RaceOutcomes ==
    {Outcome("transport_error", None)} \cup
    {Outcome("ok", Some(m)) : m \in RegistryMaps}

\* An invocation starts
RaceCall(f) ==
    /\ CheckCall(f, TRUE)
    /\ UNCHANGED raceVars

\* The running invocation is suspended at its await, or has finished; the
\* other one, not yet started or suspended, runs
Switch ==
    /\ pc \in {"fetching", "done"}
    /\ parked.pc \in {"idle", "fetching"}
    /\ parked' = Locals
    /\ who' = 3 - who
    /\ pc' = parked.pc /\ force' = parked.force /\ config' = parked.config
    /\ channel' = parked.channel /\ timer' = parked.timer
    /\ request' = parked.request /\ callAt' = parked.callAt
    /\ fetches' = parked.fetches /\ fetched' = parked.fetched
    /\ saves' = parked.saves /\ result' = parked.result
    /\ UNCHANGED <<now, env, disk, resolved, finished, lastSave>>

\* The request of the running invocation ends, and the invocation runs to
\* its return
RaceSettle(outcome, delay, saveOk) ==
    /\ now + delay < callAt + REGISTRY_TIMEOUT_MS
    /\ FetchSettle(outcome, delay, saveOk)
    /\ finished' = IF Val(result').error = None /\ saveOk
                   THEN Append(finished,
                               [who |-> who, at |-> now',
                                version |-> Val(Val(result').latestVersion)])
                   ELSE finished
    /\ lastSave' = IF Val(result').error = None /\ saveOk
                     THEN Some([before |-> disk, after |-> disk'])
                     ELSE lastSave
    /\ UNCHANGED <<parked, who>>

\* The fields another process may write
OtherAgents == {"agent", "agent2"}
OtherChannels == {None, Some("beta")}

\* Another process writes the config while the running invocation is
\* suspended between its load and its save
ExternalWrite(a, ch) ==
    /\ pc = "fetching"
    /\ disk = Val(config)
    /\ disk' = [update |-> IF disk.update = None
                           THEN IF ch = None THEN None
                                ELSE Some(UpdateConfigOf(ch, None, None, None))
                           ELSE Some([Val(disk.update) EXCEPT !.channel = ch]),
                agent |-> a]
    /\ disk' # disk
    /\ UNCHANGED <<now, env, pc, force, config, channel, timer, request,
                   callAt, fetches, fetched, saves, result, resolved>>
    /\ UNCHANGED raceVars

NextRace ==
    \/ (\E f \in BOOLEAN : RaceCall(f)) /\ UNCHANGED notRaceVars
    \/ Switch /\ UNCHANGED notRaceVars
    \/ (\E o \in RaceOutcomes, d \in {0, ResponseDelayMs}, saveOk \in BOOLEAN :
            RaceSettle(o, d, saveOk)) /\ UNCHANGED notRaceVars
    \/ (\E a \in OtherAgents, ch \in OtherChannels : ExternalWrite(a, ch))
           /\ UNCHANGED notRaceVars

SpecRace == InitRace /\ [][NextRace]_vars

-----------------------------------------------------------------------------
(* checkForUpdate calls, forced or not, with any registry answer and any   *)
(* outcome of the load and of the save, on a config that starts without a  *)
(* last check.                                                             *)

SpecFresh == InitChannel /\ [][Next]_vars

-----------------------------------------------------------------------------
(* Properties                                                              *)

Returned == pc = "done" /\ result # None
R == Val(result)
\* The update section the invocation loaded
Loaded == Val(config).update
\* The invocation found lastCheckAt less than the check interval ago
InWindow ==
    /\ config # None
    /\ Field(Loaded, "lastCheckAt") # None
    /\ callAt - Val(Field(Loaded, "lastCheckAt")) <
           1000 * (IF Field(Loaded, "checkIntervalSeconds") = None
                   THEN 14400
                   ELSE Val(Field(Loaded, "checkIntervalSeconds")))
\* The registry answered 2xx with a dist-tags object
GotTags == fetched # None /\ Val(fetched).kind = "ok" /\ Val(fetched).distTags # None
Tags == Val(Val(fetched).distTags)
\* The fetch yielded nothing
GotNothing ==
    /\ fetched # None
    /\ \/ Val(fetched).kind \in
              {"aborted", "non_2xx", "transport_error", "malformed_json"}
       \/ Val(fetched).kind = "ok" /\ Val(fetched).distTags = None
TagOfChannel ==
    IF channel = "stable" THEN "latest" ELSE IF channel = "beta" THEN "beta"
    ELSE IF channel = "nightly" THEN "nightly" ELSE "undefined"

\* C1: a non-forced check that finds lastCheckAt within the interval (14400 s
\* when unset) returns cached, without error, with the persisted
\* lastCheckVersion, without a registry request and without a config write;
\* and a cached result never made a registry request.
C1_CacheGate ==
    /\ (pc \in {"fetching", "done"} /\ ~force /\ InWindow) =>
           /\ Returned
           /\ R.cached
           /\ R.error = None
           /\ R.latestVersion = Field(disk.update, "lastCheckVersion")
           /\ fetches = 0 /\ fetched = None
           /\ saves = <<>> /\ disk = Val(config)
    /\ (result # None /\ R.cached) => (fetches = 0 /\ fetched = None)

\* C1 witness: the cached result of the test (interval 3600, version 2.1.0)
C1_Witness ==
    /\ Returned /\ ~force /\ InWindow
    /\ Field(Loaded, "checkIntervalSeconds") = Some(3600)
    /\ R.cached /\ R.updateAvailable /\ R.latestVersion = Some(V_2_1_0)

\* C2: a forced check issues exactly one registry request and returns
\* cached = false, whatever the persisted config, also within the interval.
C2_ForceBypassesCache ==
    /\ (pc = "fetching" /\ force) => fetches = 1
    /\ (pc = "done" /\ force) =>
           (fetches = 1 /\ fetched # None /\ result # None /\ ~R.cached)

\* C2 witness: a forced check within the interval has fetched and returned
C2_Witness ==
    Returned /\ force /\ InWindow /\ fetches = 1 /\ GotTags /\ ~R.cached

\* C3 as stated: whenever the fetched map contains the channel's tag, the check
\* saves lastCheckAt = now and lastCheckVersion = the fetched version.
C3_SavesWheneverTagPresent ==
    (pc = "done" /\ GotTags /\ TagOfChannel \in DOMAIN Tags) =>
        /\ Len(saves) = 1
        /\ Field(saves[1].update, "lastCheckAt") = Some(now)
        /\ Field(saves[1].update, "lastCheckVersion") = Some(Tags[TagOfChannel])

\* C3 amended: whenever the fetched map holds a non-empty version under the
\* channel's tag, the check saves lastCheckAt = now and lastCheckVersion = that
\* version, also when no update is available or the versions do not compare.
C3_SavesOnSuccess ==
    (pc = "done" /\ GotTags /\ TagOfChannel \in DOMAIN Tags
        /\ Tags[TagOfChannel] # <<>>) =>
        /\ Len(saves) = 1
        /\ Field(saves[1].update, "lastCheckAt") = Some(now)
        /\ Field(saves[1].update, "lastCheckVersion") = Some(Tags[TagOfChannel])

\* C3 witness: a version that does not compare was fetched late and saved
C3_Witness ==
    /\ Returned /\ GotTags /\ TagOfChannel \in DOMAIN Tags
    /\ Tags[TagOfChannel] = V_next /\ ~R.updateAvailable
    /\ now > callAt
    /\ Len(saves) = 1 /\ disk = saves[1]
    /\ Field(disk.update, "lastCheckAt") = Some(now)

\* C4: when the fetch yields nothing (timeout, non-2xx, transport error,
\* malformed body, no dist-tags field) the check returns updateAvailable =
\* false, latestVersion = null, cached = false and the network-failure error,
\* and the persisted config is as before.
C4_NetworkFailure ==
    (pc = "done" /\ GotNothing) =>
        /\ result # None
        /\ ~R.updateAvailable /\ R.latestVersion = None /\ ~R.cached
        /\ R.error = Some(ErrUnreachable)
        /\ saves = <<>> /\ disk = Val(config)

\* C4 witness: the timer aborted the request and the check returned
C4_Witness ==
    /\ Returned /\ fetched = Some(Aborted) /\ timer = "fired"
    /\ R.error = Some(ErrUnreachable)

\* C5: when the fetched map lacks the channel's tag the check returns
\* updateAvailable = false, latestVersion = null and an error that names the
\* channel and says it may have no published releases, and writes no config.
C5_TagMissing ==
    (pc = "done" /\ GotTags /\ TagOfChannel \notin DOMAIN Tags) =>
        /\ result # None
        /\ ~R.updateAvailable /\ R.latestVersion = None
        /\ R.error # None
        /\ Val(R.error).kind = "no_published_releases"
        /\ channel \in Val(R.error).names
        /\ saves = <<>> /\ disk = Val(config)

\* C5 witness: channel nightly against a map that has latest but no nightly
C5_Witness ==
    /\ Returned /\ channel = "nightly" /\ GotTags
    /\ "latest" \in DOMAIN Tags /\ "nightly" \notin DOMAIN Tags
    /\ R.error = Some(ErrNoVersion("nightly", "nightly"))

\* C6: in every result, an error implies latestVersion = null and
\* updateAvailable = false.
C6_ErrorImpliesNoVersion ==
    (result # None /\ R.error # None) =>
        (R.latestVersion = None /\ ~R.updateAvailable)

\* C6 witness: a result with an error, from a config that holds a last version
C6_Witness ==
    /\ Returned /\ R.error # None
    /\ Field(Loaded, "lastCheckVersion") # None

\* C7: in every result with a latestVersion, cached or fetched, updateAvailable
\* holds iff compare(current, latest) is negative; a null comparison gives false.
C7_UpdateAvailableIffOlder ==
    (result # None /\ R.latestVersion # None) =>
        (R.updateAvailable <=>
            compareSemver(R.currentVersion, Val(R.latestVersion)) = Some(-1))

\* C7 witness: a cached result whose version does not compare
C7_Witness ==
    /\ Returned /\ R.cached /\ R.latestVersion = Some(V_next)
    /\ ~R.updateAvailable

\* C8 as stated (checkForUpdate): every invocation ends by returning a result;
\* no exception reaches the caller.
C8_NeverThrows == pc # "threw"

\* C9: once the registry request is pending the check returns, even when the
\* registry never answers: the timer aborts the request.
C9_CheckReturns == (pc = "fetching") ~> (pc = "done")

\* C9 witness: the network-failure result after the timer fired at 8 s
C9_Witness ==
    /\ Returned /\ timer = "fired" /\ fetched = Some(Aborted)
    /\ now = callAt + 8000
    /\ R.error = Some(ErrUnreachable) /\ ~R.cached

\* The environment value is a channel name in any letter case between
\* white space
UpperOf(c) == Alphabet[Ord(c) - 26]
EnvNames(chars) ==
    /\ env.set
    /\ \E i \in 1..Len(env.val) :
        /\ i + Len(chars) - 1 <= Len(env.val)
        /\ \A k \in 1..Len(chars) :
               env.val[i + k - 1] \in {chars[k], UpperOf(chars[k])}
        /\ \A k \in 1..Len(env.val) :
               (k < i \/ k > i + Len(chars) - 1) => env.val[k] \in Whitespace

\* C10: resolveChannel returns the environment override, trimmed and
\* lower-cased, when it is stable, beta or nightly; otherwise the persisted
\* channel when present; otherwise stable.
C10_ResolveChannel ==
    resolved # None =>
        Val(resolved) =
            IF EnvNames(StableChars) THEN "stable"
            ELSE IF EnvNames(BetaChars) THEN "beta"
            ELSE IF EnvNames(NightlyChars) THEN "nightly"
            ELSE IF disk.update # None /\ Val(disk.update).channel # None
                 THEN Val(Val(disk.update).channel)
            ELSE "stable"

\* C10 witness: "\tStable\n" overrides a persisted nightly
C10_Witness ==
    /\ resolved = Some("stable")
    /\ env = EnvOf(<<"\t", "S", "t", "a", "b", "l", "e", "\n">>)
    /\ disk.update # None /\ Val(disk.update).channel = Some("nightly")

-----------------------------------------------------------------------------
(* Properties of detectInstallMethod                                       *)

\* `which` found the binary: it printed a path
BinFound == whichOut # None /\ trim(Val(whichOut)) # <<>>
\* The path `which` printed, without the newline
WhichPath == SubSeq(Val(whichOut), 1, Len(Val(whichOut)) - 1)
\* The path to classify: the link's target, or the printed path when
\* realpathSync threw
ClassifiedPath == IF realOut # None THEN Val(realOut) ELSE WhichPath
\* The directories a path leads through, by name
DirsOf(p) ==
    LET names == SplitOn(p, "/")
    IN  {names[i] : i \in 2..(Len(names) - 1)}
Under(p, name) == Chars(name) \in DirsOf(p)
FirstDir(p) == SplitOn(p, "/")[2]
\* The first matching rule, in the fixed order
FirstRule(p) ==
    IF Under(p, "Cellar") \/ Under(p, "homebrew") THEN "homebrew"
    ELSE IF Under(p, "snap") THEN "snap"
    ELSE IF Under(p, "flatpak") \/ Under(p, "ai.milady.Milaidy") THEN "flatpak"
    ELSE IF FirstDir(p) = Chars("usr") /\ ~Under(p, "node_modules") THEN "apt"
    ELSE IF Under(p, ".bun") THEN "bun-global"
    ELSE IF Under(p, "pnpm") THEN "pnpm-global"
    ELSE IF Under(p, "node_modules") THEN "npm-global"
    ELSE "unknown"

\* C11: when the binary is found on PATH, detectInstallMethod returns what
\* the first matching rule of the fixed order gives for the symlink-resolved
\* path, or for the unresolved path when resolution fails, whatever
\* combination of directory names the path has.
C11_FirstMatchingRule ==
    (BinFound /\ detected # None) => Val(detected) = FirstRule(ClassifiedPath)

\* A link under /home/user/.bun resolved to a path under /usr that also leads
\* through .bun and pnpm directories: the /usr/ rule comes first
C11_Witness ==
    /\ BinFound /\ realOut # None
    /\ Under(WhichPath, ".bun") /\ FirstDir(ClassifiedPath) = Chars("usr")
    /\ Under(ClassifiedPath, ".bun") /\ Under(ClassifiedPath, "pnpm")
    /\ detected = Some("apt")

\* The manifest can be read and declares devDependencies
DeclaresDevDependencies ==
    /\ manifest.kind = "json"
    /\ manifest.content # None
    /\ Val(manifest.content).devDependencies # None

\* C12: when the binary is not found on PATH, detectInstallMethod returns
\* local-dev if and only if the project manifest can be read and declares
\* devDependencies, and unknown otherwise; it never returns local-dev when
\* the binary is found.
C12_LocalDevIffManifest ==
    detected # None =>
        /\ ~BinFound =>
              Val(detected) =
                  (IF DeclaresDevDependencies THEN "local-dev" ELSE "unknown")
        /\ Val(detected) = "local-dev" => ~BinFound

\* `which` failed and the manifest declares an empty devDependencies object
C12_Witness ==
    /\ whichOut = None
    /\ manifest.kind = "json" /\ manifest.content # None
    /\ Val(manifest.content).devDependencies = Some({})
    /\ detected = Some("local-dev")

-----------------------------------------------------------------------------
(* Properties of buildUpdateCommand and performUpdate                      *)

\* The package to install, by channel
PackageOf(ch) ==
    CASE ch = "stable" -> "milaidy@latest"
      [] ch = "beta" -> "milaidy@beta"
      [] ch = "nightly" -> "milaidy@nightly"
\* The snap channel flag, by channel
SnapFlagOf(ch) ==
    CASE ch = "stable" -> "--channel=stable"
      [] ch = "beta" -> "--channel=beta"
      [] ch = "nightly" -> "--channel=edge"
NpmInstall(ch) == [command |-> "npm", args |-> <<"install", "-g", PackageOf(ch)>>]
\* The command of every installation method that has one
CommandTable(m, ch) ==
    CASE m = "npm-global" -> NpmInstall(ch)
      [] m = "unknown" -> NpmInstall(ch)
      [] m = "bun-global" ->
             [command |-> "bun", args |-> <<"install", "-g", PackageOf(ch)>>]
      [] m = "pnpm-global" ->
             [command |-> "pnpm", args |-> <<"add", "-g", PackageOf(ch)>>]
      [] m = "snap" ->
             [command |-> "sudo",
              args |-> <<"snap", "refresh", "milaidy", SnapFlagOf(ch)>>]
      [] m = "homebrew" -> [command |-> "brew", args |-> <<"upgrade", "milaidy">>]
      [] m = "apt" ->
             [command |-> "sudo",
              args |-> <<"apt-get", "update", "&&", "sudo", "apt-get", "install",
                         "--only-upgrade", "milaidy">>]
      [] m = "flatpak" ->
             [command |-> "flatpak", args |-> <<"update", "ai.milady.Milaidy">>]

\* performUpdate has built its command
Built == upc # "idle"
UR == Val(updateResult)

\* C13: for every channel, npm-global, bun-global and pnpm-global get their
\* tool's global install of milaidy@latest, milaidy@beta or milaidy@nightly;
\* unknown gets exactly the npm-global command of the channel; snap gets a
\* refresh with --channel=stable, beta or edge; homebrew, apt and flatpak get
\* one command whatever the channel.
C13_CommandPerMethod ==
    (Built /\ method # "local-dev") =>
        cmdInfo = Some(CommandTable(method, updChannel))

\* An installation of unknown method is updated on the nightly channel
C13_Witness ==
    /\ Built /\ method = "unknown" /\ updChannel = "nightly"
    /\ whichOut = None
    /\ cmdInfo = Some([command |-> "npm",
                       args |-> <<"install", "-g", "milaidy@nightly">>])

\* C14: buildUpdateCommand returns null for local-dev on every channel and a
\* command for every other pair of installation method and channel.
C14_NullIffLocalDev ==
    Built =>
        /\ method \in InstallMethods
        /\ updChannel \in ReleaseChannels
        /\ cmdInfo = None <=> method = "local-dev"

\* A local development checkout is updated on the beta channel
C14_Witness ==
    /\ Built /\ method = "local-dev" /\ updChannel = "beta" /\ cmdInfo = None

\* C15: performUpdate on a local-dev installation spawns no process and does
\* not re-read the version; it returns success=false, an empty command,
\* newVersion=null and the error that says to use git pull.  For every other
\* method a command is spawned, so a result with an empty command is one for
\* local-dev.
C15_LocalDevNotUpdated ==
    /\ (Built /\ method = "local-dev") =>
           /\ spawns = 0 /\ rereads = 0 /\ child = "none"
           /\ updateResult =
                  Some([success |-> FALSE, method |-> "local-dev", command |-> "",
                        previousVersion |-> currentVersion, newVersion |-> None,
                        error |-> Some("Cannot auto-update a local development install. Use git pull instead.")])
    /\ (Built /\ method # "local-dev") => spawns = 1
    /\ (updateResult # None /\ UR.command = "") => method = "local-dev"

\* performUpdate has returned for a local development checkout
C15_Witness ==
    /\ upc = "done" /\ method = "local-dev" /\ updChannel = "nightly"
    /\ updateResult # None /\ UR.command = "" /\ spawns = 0

\* The child's close event came with exit code 0 and no error event before
ExitedZero == childError = None /\ childExit = Some([code |-> Some(0)])

\* C16: performUpdate returns success=true exactly when the command was
\* spawned and exited with code 0; the re-read of the version does not change
\* success (a failed re-read gives newVersion=null with success=true), and a
\* result with success=true has error=null.
C16_SuccessIffExitZero ==
    updateResult # None =>
        /\ UR.success <=> (spawns = 1 /\ ExitedZero)
        /\ UR.success => UR.error = None
        /\ (UR.success /\ versionOut = None) => UR.newVersion = None
        /\ (UR.success /\ versionOut = Some(Line(Chars("milaidy")))) =>
               UR.newVersion = None
        /\ (UR.success /\ versionOut = Some(Line(Chars("milaidy/") \o V_2_1_0))) =>
               UR.newVersion = Some(V_2_1_0)
        /\ (UR.success /\ versionOut = Some(Line(V_2_1_0_beta_1))) =>
               UR.newVersion = Some(V_2_1_0_beta_1)

\* The command exited with 0 and `milaidy --version` then failed
C16_Witness ==
    /\ updateResult # None /\ UR.success /\ UR.newVersion = None
    /\ versionOut = None /\ rereads = 1 /\ ExitedZero

\* The fallback message, by exit code
ExitMessage(code) ==
    CASE code = 1 -> "Update command exited with code 1."
      [] code = 127 -> "Update command exited with code 127."

\* C17: a result with success=false has a non-null, non-empty error and
\* newVersion=null; after a nonzero exit the error is the captured stderr
\* text when that is not empty and otherwise the message with the exit code;
\* the command is spawned at most once and the version is not re-read after
\* a nonzero exit.
C17_FailureHasError ==
    /\ spawns <= 1
    /\ (updateResult # None /\ ~UR.success) =>
           /\ UR.error # None /\ Val(UR.error) # ""
           /\ UR.newVersion = None
           /\ rereads = 0
           /\ (spawns = 1 /\ childError = None) =>
                  /\ childExit # None
                  /\ Val(childExit).code # Some(0)
                  /\ UR.error =
                         Some(IF stderr # "" THEN stderr
                              ELSE ExitMessage(Coalesce(Val(childExit).code, 1)))
           /\ (spawns = 1 /\ childError # None) => UR.error = childError

\* The shell reported an unknown command and wrote nothing to stderr
C17_Witness ==
    /\ updateResult # None /\ ~UR.success
    /\ stderr = "" /\ childExit = Some([code |-> Some(127)])
    /\ UR.error = Some("Update command exited with code 127.")

-----------------------------------------------------------------------------
(* Properties of fetchAllChannelVersions                                   *)

AV == Val(versions)
\* The version the fetched map holds under a tag, {} when it holds none
Under_Tag(tag) == IF tag \in DOMAIN Tags THEN Some(Tags[tag]) ELSE None
\* The persisted config says the last check was less than the interval ago
DiskInWindow ==
    /\ disk.update # None
    /\ Field(disk.update, "lastCheckAt") # None
    /\ now - Val(Field(disk.update, "lastCheckAt")) < 3600 * 1000

\* What holds in every state of fetchAllChannelVersions: one request, no
\* config loaded or saved, and the three versions as the fetched map has them
C18_OneFetchNoConfig ==
    /\ apc = "fetching" => fetches = 1
    /\ config = None /\ saves = <<>>
    /\ (apc = "done" /\ versions # None) =>
           /\ fetches = 1
           /\ GotTags =>
                  AV = [stable |-> Under_Tag("latest"), beta |-> Under_Tag("beta"),
                        nightly |-> Under_Tag("nightly")]
           /\ GotNothing =>
                  AV = [stable |-> None, beta |-> None, nightly |-> None]

\* C18: fetchAllChannelVersions makes exactly one registry request, neither
\* loads nor saves the persisted config (which stays as it was, and whose
\* lastCheckAt does not hold the request back), and returns for stable, beta
\* and nightly the value under latest, beta and nightly of the fetched map,
\* null for an absent tag, and three nulls when the fetch fails.
C18_FetchAllChannelVersions ==
    [](C18_OneFetchNoConfig) /\ [][disk' = disk]_vars

\* Inside the cache window of the persisted config, the registry answered
\* with latest and beta but no nightly
C18_Witness ==
    /\ apc = "done" /\ versions # None /\ DiskInWindow /\ fetches = 1
    /\ GotTags /\ DOMAIN Tags = {"latest", "beta"}
    /\ AV.stable # None /\ AV.beta # None /\ AV.nightly = None

-----------------------------------------------------------------------------
(* Properties of compareSemver                                             *)

\* The versions of the model from lowest to highest: 1.9.0 < 2.0.0-alpha
\* (major), 2.0.0-alpha < 2.0.0-alpha.7 (shorter list with the same prefix),
\* alpha.7 < alpha.10 (numeric fields), alpha.10 < beta.1 (text fields),
\* 2.0.0-beta.1 < 2.0.0 (no prerelease is higher), 2.0.0 < 2.0.9 < 2.0.10
\* (patch, as numbers), 2.0.10 < 2.1.0-beta.1 < 2.1.0 (minor), 2.1.0 < 2.10.0
\* (minor, as numbers), 2.10.0 < 10.0.0 (major, as numbers).
Ascending ==
    <<V_1_9_0, V_2_0_0_alpha, V_2_0_0_alpha_7, V_2_0_0_alpha_10, V_2_0_0_beta_1,
      V_2_0_0, V_2_0_9, V_2_0_10, V_2_1_0_beta_1, V_2_1_0, V_2_10_0, V_10_0_0>>
Parseable(v) == \E i \in 1..Len(Ascending) : Ascending[i] = v
Rank(v) == CHOOSE i \in 1..Len(Ascending) : Ascending[i] = v

\* C19: for version strings a and b of the form major.minor.patch with an
\* optional -prerelease, compare(a, b) orders by major, minor and patch as
\* numbers, puts a version without prerelease above the same version with
\* one, and compares two prereleases field by field (numbers as numbers,
\* text as text, a shorter list that is a prefix lower); compare(a, a) = 0,
\* compare(a, b) = -compare(b, a), and the result is null exactly when a or b
\* is not such a string.
C19_CompareOrders ==
    cmpDone =>
        /\ (Parseable(cmpA) /\ Parseable(cmpB)) =>
               cmpAB = Some(Sign(Rank(cmpA) - Rank(cmpB)))
        /\ cmpAB = None <=> (~Parseable(cmpA) \/ ~Parseable(cmpB))
        /\ (cmpA = cmpB /\ Parseable(cmpA)) => cmpAB = Some(0)
        /\ cmpAB # None => (cmpBA # None /\ Val(cmpBA) = -Val(cmpAB))
        /\ cmpAB = None => cmpBA = None

\* 2.0.0-alpha.10 was compared with 2.0.0-alpha.7
C19_Witness ==
    /\ cmpDone /\ cmpA = V_2_0_0_alpha_10 /\ cmpB = V_2_0_0_alpha_7
    /\ cmpAB = Some(1) /\ cmpBA = Some(-1)

-----------------------------------------------------------------------------
(* Properties of the check interval                                        *)

\* checkIntervalSeconds of the persisted config, 14400 when unset, in ms
IntervalMs ==
    1000 * (IF Field(disk.update, "checkIntervalSeconds") = None
            THEN 14400
            ELSE Val(Field(disk.update, "checkIntervalSeconds")))
\* Two requests were issued; the time between them
TwoIssued == prevIssue # None /\ lastIssue # None
IssueGap == Val(lastIssue).at - Val(prevIssue).at

\* C20 as stated: in a sequence of non-forced checkForUpdate calls on one
\* persisted config, two registry requests are never issued less than
\* checkIntervalSeconds apart, whatever the registry returns.
C20_FetchesSpaced == TwoIssued => IssueGap >= IntervalMs

\* C20, amended: a registry request whose answer held a version for the
\* channel's tag, and so was saved, is not followed by another request of a
\* non-forced call before checkIntervalSeconds have passed.
C20_FetchesSpacedAfterSave ==
    (TwoIssued /\ Val(prevIssue).saved) => IssueGap >= IntervalMs

\* A saved check was followed, an interval later, by the next request
C20_Witness ==
    /\ TwoIssued /\ Val(prevIssue).saved /\ pc = "fetching"
    /\ IssueGap >= IntervalMs

-----------------------------------------------------------------------------
(* Properties of the cached version                                        *)

\* C21: in every checkForUpdate result with a latestVersion, that version is
\* the one the registry listed under the result's distTag in the most recent
\* successful fetch, also in a cached result returned after the effective
\* channel changed since that fetch.
C21_VersionOfResultTag ==
    (Returned /\ R.latestVersion # None /\ lastOk # None) =>
        /\ R.distTag \in DOMAIN Val(lastOk)
        /\ R.latestVersion = Some(Val(lastOk)[R.distTag])

-----------------------------------------------------------------------------
(* Properties of a check after a failed check                              *)

\* The invocation in progress is not forced and follows one that returned an
\* error
AfterFailed ==
    /\ pc \in {"fetching", "done"} /\ ~force
    /\ prevReturn # None /\ Val(prevReturn).failed

-----------------------------------------------------------------------------
(* Properties of two concurrent checks                                     *)

\* Both invocations have run to their return
BothDone == pc = "done" /\ parked.pc = "done"

\* C23: when two checkForUpdate invocations on one persisted config both
\* fetched and both saved, the lastCheckAt and lastCheckVersion that persist
\* are those of the save made last, whichever request was issued first: the
\* write of the other invocation is overwritten.
C23_LastSaveWins ==
    (BothDone /\ Len(finished) = 2) =>
        /\ Field(disk.update, "lastCheckVersion") = Some(finished[2].version)
        /\ Field(disk.update, "lastCheckAt") = Some(finished[2].at)

\* Both invocations loaded the same config and both fetched; the request
\* issued first (by invocation 1) was answered last, and its version, not
\* the other one, is what persists
C23_Witness ==
    /\ BothDone /\ Len(finished) = 2
    /\ config = parked.config
    /\ fetches = 1 /\ parked.fetches = 1
    /\ finished[1].who = 2 /\ finished[2].who = 1
    /\ finished[1].version # finished[2].version
    /\ Field(disk.update, "lastCheckVersion") = Some(finished[2].version)

\* The fields of a config other than update.lastCheckAt and
\* update.lastCheckVersion
OtherFields(cfg) ==
    [agent |-> cfg.agent,
     channel |-> Field(cfg.update, "channel"),
     checkIntervalSeconds |-> Field(cfg.update, "checkIntervalSeconds")]

\* C28: a successful checkForUpdate save discards no change that another
\* process wrote to the persisted config between the invocation's load and
\* its save: every field other than update.lastCheckAt and
\* update.lastCheckVersion has, after the save, the value it had in durable
\* storage immediately before the save.
C28_SaveKeepsOtherWrites ==
    lastSave # None =>
        OtherFields(Val(lastSave).after) = OtherFields(Val(lastSave).before)

-----------------------------------------------------------------------------
(* Properties of the saved config                                          *)

\* What a saved config holds besides the last check
SavedBesidesLastCheck(cfg) ==
    [agent |-> cfg.agent,
     channel |-> Field(cfg.update, "channel"),
     checkIntervalSeconds |-> Field(cfg.update, "checkIntervalSeconds")]

\* The config handed to saveMilaidyConfig differs from the loaded one at
\* most in the last check
C24_SavedDiffersInLastCheck ==
    saves # <<>> =>
        /\ Len(saves) = 1
        /\ SavedBesidesLastCheck(saves[1]) = SavedBesidesLastCheck(Val(config))
        /\ Field(saves[1].update, "lastCheckAt") # None
        /\ Field(saves[1].update, "lastCheckVersion") # None

\* The persisted config changes only in the step in which a check that
\* fetched a version returns its result
C24_OnlySuccessWrites ==
    disk' # disk =>
        /\ pc = "fetching" /\ pc' = "done"
        /\ result' # None
        /\ Val(result').error = None /\ ~Val(result').cached
        /\ saves' # <<>> /\ disk' = saves'[1]

\* C24: the config saved by a successful checkForUpdate differs from the one
\* it loaded only in update.lastCheckAt and update.lastCheckVersion, the
\* channel, the interval and the fields outside update are unchanged and an
\* environment override is not written into update.channel; nothing but a
\* successful check (no cached check, no failed check) writes the config.
C24_SaveFrame ==
    [](C24_SavedDiffersInLastCheck) /\ [][C24_OnlySuccessWrites]_vars

\* A check under an environment override to beta, on a config whose channel
\* is not beta, saved: the file holds the new last check and the channel it
\* had
C24_Witness ==
    /\ Returned /\ saves # <<>> /\ disk = saves[1] /\ disk # Val(config)
    /\ env.set /\ R.channel = "beta"
    /\ Field(Loaded, "channel") # Some("beta")
    /\ Field(disk.update, "channel") = Field(Loaded, "channel")

\* The save of the running invocation did not go through
SaveFailed == saves # <<>> /\ disk # saves[1]

\* C25: a successful check returns the same result whether its save goes
\* through or fails (cached=false, error=null, latestVersion the fetched
\* version, updateAvailable from the comparison), and when the save fails the
\* persisted config stays as it was before the call.
C25_SaveFailureIsSilent ==
    (Returned /\ saves # <<>>) =>
        /\ GotTags /\ TagOfChannel \in DOMAIN Tags
        /\ ~R.cached /\ R.error = None
        /\ R.latestVersion = Some(Tags[TagOfChannel])
        /\ R.updateAvailable =
               (compareSemver(VERSION, Tags[TagOfChannel]) = Some(-1))
        /\ SaveFailed => disk = Val(config)

\* A check found a newer version, its save failed, and it returned the
\* version without an error
C25_Witness ==
    /\ Returned /\ SaveFailed /\ disk = Val(config)
    /\ R.updateAvailable /\ R.error = None /\ ~R.cached
    /\ R.latestVersion = Some(V_2_1_0)

-----------------------------------------------------------------------------
(* Properties of the checks after a saved check                            *)

\* A non-forced invocation is past its gate, after an earlier invocation
\* fetched a version and saved it
AfterSaved ==
    /\ lastSaved # None
    /\ pc \in {"fetching", "done"} /\ ~force
    /\ saves = <<>> \/ disk # saves[1]

\* C26: after a checkForUpdate fetched version v and saved it at time t, with
\* no other writer and the channel unchanged, a non-forced checkForUpdate
\* called before t + checkIntervalSeconds returns cached=true with
\* latestVersion = v and without a registry fetch, and one called at
\* t + checkIntervalSeconds or later performs a registry fetch.
C26_CachedUntilInterval ==
    AfterSaved =>
        IF callAt < Val(lastSaved).at + IntervalMs
        THEN /\ Returned /\ R.cached /\ fetches = 0
             /\ R.latestVersion = Some(Val(lastSaved).version)
        ELSE fetches = 1

\* A later non-forced call inside the interval of a saved check returned the
\* saved version from the cache
C26_Witness ==
    /\ AfterSaved /\ Returned /\ R.cached /\ fetches = 0
    /\ callAt > Val(lastSaved).at
    /\ callAt < Val(lastSaved).at + IntervalMs
    /\ R.latestVersion = Some(Val(lastSaved).version)

-----------------------------------------------------------------------------
(* Properties of runCommand                                                *)

\* The value of runCommand's promise follows from the events of the child:
\* none before an event; after an error event exit code 1 with the error's
\* message, also when a close event follows; after a close event alone its
\* code, 1 when the code is null, with the stderr captured
C27_ValueOfEvents ==
    /\ settled # None <=> (childError # None \/ childExit # None)
    /\ resolveCalls = (IF childError # None THEN 1 ELSE 0) +
                      (IF childExit # None THEN 1 ELSE 0)
    /\ childError # None =>
           settled = Some([exitCode |-> 1, stderr |-> Val(childError)])
    /\ (childError = None /\ childExit # None) =>
           settled = Some([exitCode |-> IF Val(childExit).code = None
                                        THEN 1
                                        ELSE Val(Val(childExit).code),
                           stderr |-> stderr])
    /\ (upc = "done" /\ cmdInfo # None) => settled # None

\* Once the promise has a value it keeps it until the invocation is over
C27_SettledOnce ==
    settled # None => (settled' = settled \/ upc' = "idle")

\* C27: runCommand resolves once per spawned command and only after a close
\* or an error event: a close event with a null code resolves as exit code
\* 1, an error event as exit code 1 with the error's message as stderr, and
\* when both events occur the first one determines the result.
C27_ResolvesOnce == [](C27_ValueOfEvents) /\ [][C27_SettledOnce]_vars

\* The shell could not be started: the error event and then the close event
\* came, and the promise holds what the error event gave it
C27_Witness ==
    /\ childError # None /\ childExit # None /\ resolveCalls = 2
    /\ settled = Some([exitCode |-> 1, stderr |-> Val(childError)])
    /\ Val(childExit).code # Some(1)

-----------------------------------------------------------------------------
(* Properties of the persisted last check                                  *)

DiskLastCheckAt == Field(disk.update, "lastCheckAt")
DiskLastCheckVersion == Field(disk.update, "lastCheckVersion")

\* The time and the version of the last check are persisted together, the
\* time is not in the future, and a cached result has a version
C29_LastCheckPaired ==
    /\ DiskLastCheckAt # None <=> DiskLastCheckVersion # None
    /\ DiskLastCheckAt # None => Val(DiskLastCheckAt) <= now
    /\ (Returned /\ R.cached) => R.latestVersion # None

\* The persisted time of the last check does not go away or back
C29_LastCheckAtGrows ==
    DiskLastCheckAt # None =>
        /\ DiskLastCheckAt' # None
        /\ Val(DiskLastCheckAt') >= Val(DiskLastCheckAt)

\* C29: from a persisted config with neither update.lastCheckAt nor
\* update.lastCheckVersion, after any sequence of checkForUpdate calls
\* (forced or not, any registry outcome, any save outcome) lastCheckAt is
\* present iff lastCheckVersion is, lastCheckAt is never later than the
\* current time and never decreases, and every cached result has a non-null
\* latestVersion.
C29_LastCheckInvariant ==
    [](C29_LastCheckPaired) /\ [][C29_LastCheckAtGrows]_vars

\* A check saved after time 0, and a later call is answered from the cache
\* with a version
C29_Witness ==
    /\ Returned /\ R.cached /\ R.latestVersion # None
    /\ DiskLastCheckAt # None /\ Val(DiskLastCheckAt) > 0
    /\ Val(DiskLastCheckAt) < now

-----------------------------------------------------------------------------
(* Properties of the resolved channel                                      *)

\* C30: for every environment value and every persisted config, a persisted
\* channel string outside the enumeration included, the channel that
\* checkForUpdate resolved is one of stable, beta, nightly, and the dist-tag
\* it looks up is one of latest, beta, nightly.
C30_ChannelInEnumeration ==
    (pc \in {"fetching", "done"}) =>
        /\ channel \in {"stable", "beta", "nightly"}
        /\ Returned => R.distTag \in {"latest", "beta", "nightly"}

====
